---- MODULE Spec2Model ----
(***************************************************************************)
(* Model of the lazyminer codecs: the MC wire codec (mcserver: VarInt,     *)
(* VarLong, Position, in the direct coder and in the serde-based coder)    *)
(* and the NBT codec (nbt: serializer and deserializer state machines).    *)
(*                                                                         *)
(* Fixed-width integers wider than 31 bits are kept as two's-complement    *)
(* bit patterns: a w-bit value is the set of its set bit positions, a      *)
(* subset of 0..w-1 (bit 0 is the least significant).  Bytes are naturals  *)
(* in 0..255.                                                              *)
(***************************************************************************)
EXTENDS Integers, Sequences, FiniteSets, TLC

VARIABLES
    impl,     \* which MC codec runs: "direct" (coder.rs) or "serde" (coder/ser.rs, coder/de.rs, objs/*)
    vpc,      \* position of the VarInt round-trip harness
    vty,      \* "VarInt" or "VarLong"
    vself,    \* self.0 of the value being serialized, a bit pattern
    cursor,   \* the harness' std::io::Cursor: [buf, pos]
    vout,     \* result of the last VarInt decode: [res, val, read]
    ppc,      \* position of the Position round-trip harness
    pself,    \* the Position being serialized: [x, y, z]
    pout,     \* result of the last Position decode: [res, x, y, z, overflow]
    npc,      \* position of the NBT round-trip harness
    doc,      \* the value handed to the NBT serializer
    calls,    \* the serializer calls the value's Serialize impl has still to make
    log,      \* the serializer calls that have returned: [op, t, len, pos] each,
              \* len the declared length and pos the writer's position at the return
    sstate,   \* nbt::ser::Serializer.state, the last element is the back
    sres,     \* result of the last serializer call
    dstate,   \* nbt::de::Deserializer.state, the last element is the back
    vis,      \* the visitors of the value model that are waiting for items
    dres      \* result of the deserialization: [res, val]

varintVars == <<vpc, vty, vself, vout>>
posVars == <<ppc, pself, pout>>
nbtVars == <<npc, doc, calls, log, sstate, sres, dstate, vis, dres>>
vars == <<impl, cursor, varintVars, posVars, nbtVars>>

-----------------------------------------------------------------------------
(* Bounds of the model.                                                    *)

\* inputs are the bit patterns with at most MaxFlip bits different from
\* all-zeros or from all-ones
MaxFlip == 1
\* raw decoder inputs are runs of at most MaxRun continuation bytes
MaxRun == 11
\* Position fields are taken within MaxDelta of the edges of the field and
\* type ranges
MaxDelta == 1
\* lists and compounds of leaves have at most MaxItems items
MaxItems == 2
\* documents are nested to at most MaxDepth levels of containers
MaxDepth == 4
\* a caller of the NBT serializer makes at most MaxCalls calls
MaxCalls == 4

-----------------------------------------------------------------------------
(* Bit patterns.                                                           *)

Pow2(n) == 2 ^ n

\* the low 8 bits of a pattern as a byte (`as u8`)
AsU8(S) ==
    LET RECURSIVE Sum(_)
        Sum(k) == IF k > 7 THEN 0
                  ELSE (IF k \in S THEN Pow2(k) ELSE 0) + Sum(k + 1)
    IN Sum(0)

\* a byte zero-extended to a pattern (`as $inner_ty` on a u8)
FromU8(b) == {k \in 0..7 : (b \div Pow2(k)) % 2 = 1}

ByteAnd(a, b) == AsU8(FromU8(a) \cap FromU8(b))
ByteOr(a, b)  == AsU8(FromU8(a) \cup FromU8(b))
ByteXor(a, b) == AsU8((FromU8(a) \cup FromU8(b)) \ (FromU8(a) \cap FromU8(b)))

\* lsb!(n) = (1 << n) - 1: the n low bits
lsb(n) == 0..(n - 1)

\* `>>` on a signed w-bit integer: arithmetic shift, the sign bit is replicated
Sar(S, k, w) ==
    {b - k : b \in {c \in S : c >= k}}
        \cup (IF (w - 1) \in S THEN {b \in 0..(w - 1) : b >= w - k} ELSE {})

\* a rotation: the bits shifted past the width come back at the low end
Shl_rotate(S, k, w) == {(b + k) % w : b \in S}

\* `<<` on a w-bit integer: bits shifted past the width are lost
Shl(S, k, w) == {b + k : b \in {c \in S : c + k < w}}

\* a shift that also refuses to lose set bits
checked_shl_lossless(S, k, w) ==
    IF k >= w \/ \E b \in S : b + k >= w THEN [some |-> FALSE, val |-> {}]
    ELSE [some |-> TRUE, val |-> Shl(S, k, w)]

\* a shift whose count wraps around the width and never fails
checked_shl_wrapping(S, k, w) == [some |-> TRUE, val |-> Shl(S, k % w, w)]

\* checked_shl: None exactly when the shift count is >= the width
checked_shl(S, k, w) ==
    IF k >= w THEN [some |-> FALSE, val |-> {}]
    ELSE [some |-> TRUE, val |-> Shl(S, k, w)]

-----------------------------------------------------------------------------
(* std::io::Cursor over a Vec<u8>.                                         *)

write_all(c, bytes) ==
    [buf |-> SubSeq(c.buf, 1, c.pos) \o bytes
                \o SubSeq(c.buf, c.pos + Len(bytes) + 1, Len(c.buf)),
     pos |-> c.pos + Len(bytes)]

\* read_exact: all n bytes or an I/O error (UnexpectedEof)
read_exact(c, n) ==
    IF c.pos + n > Len(c.buf)
    THEN [ok |-> FALSE, bytes |-> <<>>, c |-> [c EXCEPT !.pos = Len(c.buf)]]
    ELSE [ok |-> TRUE, bytes |-> SubSeq(c.buf, c.pos + 1, c.pos + n),
          c |-> [c EXCEPT !.pos = c.pos + n]]

-----------------------------------------------------------------------------
(* VarInt / VarLong: coder_varint_impl! in coder.rs and objs/varint.rs.    *)

VarTypes == {"VarInt", "VarLong"}

\* size_of::<$ty>() * 8
BitsOf(ty) == IF ty = "VarInt" THEN 32 ELSE 64

\* the byte count without the extra byte for the remainder bits
MAX_BYTE_SIZE_floor(ty) == BitsOf(ty) \div 7

\* const MAX_BYTE_SIZE: usize = 1 + size_of::<$ty>() * 8 / 7
MAX_BYTE_SIZE(ty) == 1 + BitsOf(ty) \div 7

\* the body of `for i in 0..MAX_BYTE_SIZE` in serialize: the bytes pushed to buf
RECURSIVE VarInt_push(_, _, _)
VarInt_push(ty, self0, i) ==
    IF i >= MAX_BYTE_SIZE(ty) THEN <<>>
    ELSE LET rest == Sar(self0, 7 * i, BitsOf(ty))
         IN IF rest = {} THEN <<>>
            ELSE LET lower == AsU8(rest \cap lsb(7))
                 IN <<ByteOr(lower, 128)>> \o VarInt_push(ty, self0, i + 1)

\* the buffer with the continuation bit left on the last byte
VarInt_buf_noclear(ty, self0) ==
    IF self0 = {} THEN <<0>> ELSE VarInt_push(ty, self0, 0)

\* the byte buffer that serialize hands to the writer
VarInt_buf(ty, self0) ==
    IF self0 = {} THEN <<0>>
    ELSE LET buf == VarInt_push(ty, self0, 0)
         IN [buf EXCEPT ![Len(buf)] = ByteXor(buf[Len(buf)], 128)]

\* serde coder: Serializer::serialize_bytes
serialize_bytes(c, v) == write_all(c, v)

\* impl Serialize for VarInt/VarLong
VarInt_serialize(im, ty, self0, c) ==
    IF im = "direct" THEN write_all(c, VarInt_buf(ty, self0))
    ELSE serialize_bytes(c, VarInt_buf(ty, self0))

\* the error of a shift count that does not fit the width
VarInt_overflow(im) ==
    IF im = "direct" THEN "HumongousVarInt" ELSE "Custom"

\* the body of `for i in 0..` in deserialize
RECURSIVE VarInt_loop(_, _, _, _, _)
VarInt_loop(im, ty, c, result, i) ==
    LET rd == read_exact(c, 1)
    IN IF ~rd.ok THEN [res |-> "IoError", val |-> {}, c |-> rd.c]
       ELSE LET byte == rd.bytes[1]
                sh == checked_shl(FromU8(ByteAnd(byte, 127)), 7 * i, BitsOf(ty))
            IN IF ~sh.some
               THEN [res |-> VarInt_overflow(im), val |-> {}, c |-> rd.c]
               ELSE IF ByteAnd(byte, 128) = 0
                    THEN [res |-> "Ok", val |-> result \cup sh.val, c |-> rd.c]
                    ELSE VarInt_loop(im, ty, rd.c, result \cup sh.val, i + 1)

\* impl Deserialize for VarInt/VarLong
VarInt_deserialize(im, ty, c) == VarInt_loop(im, ty, c, {}, 0)

-----------------------------------------------------------------------------
(* Fixed-width integers: coder_int_impl! / ser_int! / de_int!.             *)

\* `>>` on an unsigned integer: logical shift
Shr(S, k) == {b - k : b \in {c \in S : c >= k}}

\* to_le_bytes: the least significant byte first
to_le_bytes(n, size) == [j \in 1..size |-> AsU8(Shr(n, 8 * (j - 1)))]

\* to_be_bytes: the most significant byte first
to_be_bytes(n, size) == [j \in 1..size |-> AsU8(Shr(n, 8 * (size - j)))]

\* from_be_bytes
from_be_bytes(buf) ==
    UNION {Shl(FromU8(buf[j]), 8 * (Len(buf) - j), 8 * Len(buf))
             : j \in 1..Len(buf)}

\* direct coder: impl Serialize for u64
u64_serialize(c, n) == write_all(c, to_be_bytes(n, 8))

\* serde coder: Serializer::serialize_u64
serialize_u64(c, v) == write_all(c, to_be_bytes(v, 8))

\* the smallest and largest value of a signed type of the given width
IMin(bits) == IF bits = 32 THEN -2147483647 - 1 ELSE -Pow2(bits - 1)
IMax(bits) == IF bits = 32 THEN 2147483647 ELSE Pow2(bits - 1) - 1

\* `as u64` on an i32 or i16: sign extension to 64 bits
AsU64(v) ==
    {k \in 0..30 : (v \div Pow2(k)) % 2 = 1}
        \cup (IF v < 0 THEN {k \in 0..63 : k >= 31} ELSE {})

\* `as u32` / `as u16` on a pattern that was masked to fewer than 31 bits
AsUnsigned(S) ==
    LET RECURSIVE Sum(_)
        Sum(k) == IF k > 30 THEN 0
                  ELSE (IF k \in S THEN Pow2(k) ELSE 0) + Sum(k + 1)
    IN Sum(0)

\* `as $to_ty` from the unsigned type of the same width
AsSigned(x, bits) == IF x > IMax(bits) THEN (x - IMax(bits)) + (IMin(bits) - 1) ELSE x

-----------------------------------------------------------------------------
(* Position: coder.rs and objs/position.rs.                                *)

\* direct coder, impl Serialize for Position: the packed u64
Position_pack(self) ==
    LET x == AsU64(self.x) \cap lsb(26)
        y == AsU64(self.y) \cap lsb(12)
        z == AsU64(self.z) \cap lsb(26)
    IN Shl(x, 26 + 12, 64) \cup Shl(y, 26, 64) \cup z

\* the conversion without the mask on y
Position_into_nomask(self) ==
    LET x == AsU64(self.x) \cap lsb(26)
        y == AsU64(self.y)
        z == AsU64(self.z) \cap lsb(26)
    IN Shl(x, 26 + 12, 64) \cup Shl(y, 26, 64) \cup z

\* serde coder, impl Into<u64> for Position
Position_into(self) ==
    LET x == AsU64(self.x) \cap lsb(26)
        y == AsU64(self.y) \cap lsb(12)
        z == AsU64(self.z) \cap lsb(26)
    IN Shl(x, 26 + 12, 64) \cup Shl(y, 26, 64) \cup z

\* impl Serialize for Position
Position_serialize(im, self, c) ==
    IF im = "direct" THEN u64_serialize(c, Position_pack(self))
    ELSE serialize_u64(c, Position_into(self))

\* sign extension that tests the wrong bit
uN_to_iN_nosign(x, N, to_bits) ==
    LET cast == AsSigned(x, to_bits)
        d == cast - (IF x >= Pow2(N) THEN Pow2(N) ELSE 0)
    IN [val |-> d, overflow |-> d < IMin(to_bits) \/ d > IMax(to_bits)]

\* uN_to_iN!: $x as $to_ty - if $x >= 2.pow($N - 1) { 2.pow($N) } else { 0 }
uN_to_iN(x, N, to_bits) ==
    LET cast == AsSigned(x, to_bits)
        d == cast - (IF x >= Pow2(N - 1) THEN Pow2(N) ELSE 0)
    IN [val |-> d,
        overflow |-> d < IMin(to_bits) \/ d > IMax(to_bits)
                       \/ Pow2(N) > IMax(to_bits)]

\* direct coder, impl Deserialize for Position: the fields of the u64
Position_unpack(n) ==
    LET z == AsUnsigned(n \cap lsb(26))
        y == AsUnsigned(Shr(n, 26) \cap lsb(12))
        x == AsUnsigned(Shr(n, 26 + 12) \cap lsb(26))
        sx == uN_to_iN(x, 26, 32)
        sy == uN_to_iN(y, 12, 16)
        sz == uN_to_iN(z, 26, 32)
    IN [res |-> "Ok", x |-> sx.val, y |-> sy.val, z |-> sz.val,
        overflow |-> sx.overflow \/ sy.overflow \/ sz.overflow]

\* serde coder, impl From<u64> for Position
Position_from(n) ==
    LET z == AsUnsigned(n \cap lsb(26))
        y == AsUnsigned(Shr(n, 26) \cap lsb(12))
        x == AsUnsigned(Shr(n, 26 + 12) \cap lsb(26))
        sx == uN_to_iN(x, 26, 32)
        sy == uN_to_iN(y, 12, 16)
        sz == uN_to_iN(z, 26, 32)
    IN [res |-> "Ok", x |-> sx.val, y |-> sy.val, z |-> sz.val,
        overflow |-> sx.overflow \/ sy.overflow \/ sz.overflow]

\* impl Deserialize for Position: u64::deserialize / deserialize_u64, then
\* the conversion
Position_deserialize(im, c) ==
    LET rd == read_exact(c, 8)
    IN IF ~rd.ok
       THEN [out |-> [res |-> "IoError", x |-> 0, y |-> 0, z |-> 0,
                      overflow |-> FALSE],
             c |-> rd.c]
       ELSE [out |-> IF im = "direct"
                     THEN Position_unpack(from_be_bytes(rd.bytes))
                     ELSE Position_from(from_be_bytes(rd.bytes)),
             c |-> rd.c]

-----------------------------------------------------------------------------
(* Inputs of the VarInt harness.                                           *)

AllOnes(w) == 0..(w - 1)

RECURSIVE Flips(_, _)
Flips(w, n) ==
    IF n = 0 THEN {{}}
    ELSE LET F == Flips(w, n - 1)
         IN F \cup {S \cup {b} : S \in F, b \in 0..(w - 1)}

\* 300 = 0b1_0010_1100
Bits300 == {2, 3, 5, 8}

\* the masks 2^k - 1, two alternating patterns and 300
VarIntExtras(w) ==
    {lsb(k) : k \in 1..w} \cup {{b \in 0..(w - 1) : b % 2 = 0}}
        \cup {{b \in 0..(w - 1) : b % 2 = 1}} \cup {Bits300}

VarIntInputs(ty) ==
    LET w == BitsOf(ty)
        P == Flips(w, MaxFlip) \cup VarIntExtras(w)
    IN P \cup {AllOnes(w) \ S : S \in P}

ContSample == {128, 255}
TermSample == {0, 15, 127}

\* raw streams: a run of k equal continuation bytes, then a terminator or the end
RawStreams ==
    {[i \in 1..k |-> c] \o t : k \in 0..MaxRun, c \in ContSample,
                               t \in {<<>>} \cup {<<b>> : b \in TermSample}}

NoOut == [res |-> "none", val |-> {}, read |-> 0]
NoPos == [res |-> "none", x |-> 0, y |-> 0, z |-> 0, overflow |-> FALSE]

VarIntIdle ==
    /\ vpc = "idle" /\ vty = "VarInt" /\ vself = {} /\ vout = NoOut

PositionIdle ==
    /\ ppc = "idle" /\ pself = [x |-> 0, y |-> 0, z |-> 0] /\ pout = NoPos

NoVal == [t |-> 0, bits |-> {}, s |-> <<>>, items |-> <<>>]
\* arg is what a failure carries (the TypeID of InvalidTypeId)
NoDres == [res |-> "none", val |-> NoVal, arg |-> 0]

NbtIdle ==
    /\ npc = "idle" /\ doc = NoVal /\ calls = <<>> /\ log = <<>> /\ sstate = <<>>
    /\ sres = "none" /\ dstate = <<>> /\ vis = <<>> /\ dres = NoDres

VarIntInit ==
    /\ impl \in {"direct", "serde"}
    /\ vty \in VarTypes
    /\ vout = NoOut
    /\ \/ /\ vpc = "start"
          /\ vself \in VarIntInputs(vty)
          /\ cursor = [buf |-> <<>>, pos |-> 0]
       \/ /\ vpc = "raw"
          /\ vself = {}
          /\ cursor \in {[buf |-> s, pos |-> 0] : s \in RawStreams}
    /\ PositionIdle
    /\ NbtIdle

\* x.serialize(&mut cursor).unwrap()
VarIntSerialize ==
    /\ vpc = "start"
    /\ cursor' = VarInt_serialize(impl, vty, vself, cursor)
    /\ vpc' = "written"
    /\ UNCHANGED <<impl, vty, vself, vout, posVars, nbtVars>>

\* cursor.seek(SeekFrom::Start(0)) / cursor.set_position(0)
VarIntSeek ==
    /\ vpc = "written"
    /\ cursor' = [cursor EXCEPT !.pos = 0]
    /\ vpc' = "seeked"
    /\ UNCHANGED <<impl, vty, vself, vout, posVars, nbtVars>>

\* Deserialize::deserialize(&mut cursor)
VarIntDeserialize ==
    /\ vpc \in {"seeked", "raw"}
    /\ LET d == VarInt_deserialize(impl, vty, cursor)
       IN /\ vout' = [res |-> d.res, val |-> d.val, read |-> d.c.pos]
          /\ cursor' = d.c
    /\ vpc' = IF vpc = "seeked" THEN "done" ELSE "rawdone"
    /\ UNCHANGED <<impl, vty, vself, posVars, nbtVars>>

VarIntNext == VarIntSerialize \/ VarIntSeek \/ VarIntDeserialize

SpecVarInt == VarIntInit /\ [][VarIntNext]_vars

-----------------------------------------------------------------------------
(* Properties of the VarInt / VarLong codec.                               *)

Negative(ty, x) == (BitsOf(ty) - 1) \in x
Encoded == vpc \in {"written", "seeked", "done"}
MinOf(ty) == {BitsOf(ty) - 1}
MaxOf(ty) == AllOnes(BitsOf(ty)) \ {BitsOf(ty) - 1}

\* the value of bits 7i..7i+6 of x
Group7(x, i) ==
    LET RECURSIVE Sum(_)
        Sum(j) == IF j > 6 THEN 0
                  ELSE (IF (7 * i + j) \in x THEN Pow2(j) ELSE 0) + Sum(j + 1)
    IN Sum(0)

\* the first i >= 1 at which x >> 7i is 0, for a non-negative x
Groups(x) == IF x = {} THEN 1
             ELSE CHOOSE n \in 1..10 :
                    /\ \A b \in x : b < 7 * n
                    /\ \E b \in x : b >= 7 * (n - 1)

\* C2: decoding what serialize wrote returns exactly the value that was
\* serialized and reads exactly the bytes that were written, for VarInt and
\* VarLong, negative values and the extremes included.
C2_VarIntRoundTrip ==
    vpc = "done" =>
        /\ vout.res = "Ok"
        /\ vout.val = vself
        /\ vout.read = Len(cursor.buf)

C2_Witness ==
    /\ vpc = "done" /\ vty = "VarLong" /\ vself = MinOf("VarLong")
    /\ vout.res = "Ok" /\ vout.read = 10

\* C3: VarInt(-1) is written as FF FF FF FF 0F, and FF FF FF FF 0F is read
\* back as VarInt(-1).
C3_MinusOneBytes ==
    /\ (Encoded /\ vty = "VarInt" /\ vself = AllOnes(32))
           => cursor.buf = <<255, 255, 255, 255, 15>>
    /\ (vpc = "rawdone" /\ vty = "VarInt"
           /\ cursor.buf = <<255, 255, 255, 255, 15>>)
           => (vout.res = "Ok" /\ vout.val = AllOnes(32))

\* C4: a non-negative value is written in the minimal little-endian base-128
\* form: byte i carries bits 7i..7i+6, the length is the first i at which
\* x >> 7i is 0, zero is the single byte 00, and 300 is AC 02.
C4_MinimalBase128 ==
    (Encoded /\ ~Negative(vty, vself)) =>
        /\ Len(cursor.buf) = Groups(vself)
        /\ \A i \in 0..(Len(cursor.buf) - 1) :
              cursor.buf[i + 1] % 128 = Group7(vself, i)
        /\ (vself = {} => cursor.buf = <<0>>)
        /\ (vself = Bits300 => cursor.buf = <<172, 2>>)

C4_Witness ==
    /\ vpc = "written" /\ vself = Bits300 /\ cursor.buf = <<172, 2>>

\* C5: an encoding has 1..5 bytes (VarInt) or 1..10 bytes (VarLong), every
\* byte but the last has bit 0x80 set and the last has it clear, and a
\* negative value takes exactly the maximum width.
C5_WidthAndContinuation ==
    Encoded =>
        LET n == Len(cursor.buf)
        IN /\ n >= 1
           /\ n <= (IF vty = "VarInt" THEN 5 ELSE 10)
           /\ \A i \in 1..(n - 1) : cursor.buf[i] >= 128
           /\ cursor.buf[n] < 128
           /\ (Negative(vty, vself) => n = (IF vty = "VarInt" THEN 5 ELSE 10))

C5_Witness ==
    /\ vpc = "written" /\ vty = "VarLong" /\ Negative(vty, vself)
    /\ Len(cursor.buf) = 10

\* the stream starts with n bytes that all have the continuation bit set
StartsWithContinuation(buf, n) ==
    /\ Len(buf) >= n
    /\ \A i \in 1..n : buf[i] >= 128

\* C6: the direct decoder fails with HumongousVarInt on a stream that starts
\* with six (VarLong: eleven) continuation bytes, and reads at most six
\* (eleven) bytes of any stream.
C6_HumongousVarInt ==
    (vpc \in {"done", "rawdone"} /\ impl = "direct") =>
        LET n == IF vty = "VarInt" THEN 6 ELSE 11
        IN /\ vout.read <= n
           /\ (StartsWithContinuation(cursor.buf, n)
                 => vout.res = "HumongousVarInt")

C6_Witness ==
    /\ vpc = "rawdone" /\ impl = "direct" /\ vty = "VarLong"
    /\ StartsWithContinuation(cursor.buf, 11)
    /\ vout.res = "HumongousVarInt" /\ vout.read = 11

\* the stream is as long as a VarInt may be and ends there
LastPermitted ==
    /\ vpc = "rawdone"
    /\ Len(cursor.buf) = MAX_BYTE_SIZE(vty)
    /\ StartsWithContinuation(cursor.buf, MAX_BYTE_SIZE(vty) - 1)
    /\ cursor.buf[MAX_BYTE_SIZE(vty)] < 128

\* where the payload of the last permitted byte lands, and how many of its
\* bits the width has room for: 28 and 4 for VarInt, 63 and 1 for VarLong
LastShift(ty) == 7 * (MAX_BYTE_SIZE(ty) - 1)
Room(ty) == BitsOf(ty) - LastShift(ty)

\* the stream with the excess bits of its last byte cleared
Trimmed(buf, ty) ==
    [buf EXCEPT ![Len(buf)] = ByteAnd(@, Pow2(Room(ty)) - 1)]

\* C34: the decoders accept any payload in the last permitted byte and keep
\* of it the low bits that the width has room for (4 of the fifth byte of a
\* VarInt, 1 of the tenth byte of a VarLong): the stream decodes with Ok to
\* the value of the stream whose last byte has the other bits cleared, so
\* the streams ending 0x0F and 0x7F decode to the same value.
C34_ExcessBits ==
    LastPermitted
        => (/\ vout.res = "Ok"
            /\ vout.val = VarInt_deserialize(impl, vty,
                              [buf |-> Trimmed(cursor.buf, vty), pos |-> 0]).val
            /\ {b - LastShift(vty) : b \in {c \in vout.val : c >= LastShift(vty)}}
                 = FromU8(cursor.buf[Len(cursor.buf)]) \cap lsb(Room(vty)))

\* FF FF FF FF 7F decoded as the VarInt -1 by the serde decoder
C34_Witness ==
    /\ LastPermitted /\ impl = "serde" /\ vty = "VarInt"
    /\ cursor.buf = <<255, 255, 255, 255, 127>>
    /\ vout.res = "Ok" /\ vout.val = AllOnes(32)

-----------------------------------------------------------------------------
(* The Position harness: coder_roundtrip! on Position.                     *)

I32Sample ==
    UNION {{IMin(32) + d, IMax(32) - d,
            -Pow2(25) - d, -Pow2(25) + d, Pow2(25) - d, Pow2(25) + d,
            -d, d} : d \in 0..MaxDelta} \cup {3}

I16Sample ==
    UNION {{IMin(16) + d, IMax(16) - d,
            -Pow2(11) - d, -Pow2(11) + d, Pow2(11) - d, Pow2(11) + d,
            -d, d} : d \in 0..MaxDelta} \cup {2}

PositionInputs ==
    {[x |-> x, y |-> y, z |-> z] : x \in I32Sample, y \in I16Sample, z \in I32Sample}

\* raw decoder inputs: every mix of 00 and FF bytes, two fixed words and a
\* stream that ends early
PositionStreams ==
    {[j \in 1..8 |-> IF j \in T THEN 255 ELSE 0] : T \in SUBSET (1..8)}
        \cup {<<0, 0, 0, 64, 8, 0, 0, 3>>, <<0, 0, 0, 64, 128, 0, 0, 3>>,
              <<0, 0, 0, 64, 8>>}

PositionInit ==
    /\ impl \in {"direct", "serde"}
    /\ pout = NoPos
    /\ \/ /\ ppc = "start"
          /\ pself \in PositionInputs
          /\ cursor = [buf |-> <<>>, pos |-> 0]
       \/ /\ ppc = "raw"
          /\ pself = [x |-> 0, y |-> 0, z |-> 0]
          /\ cursor \in {[buf |-> s, pos |-> 0] : s \in PositionStreams}
    /\ VarIntIdle
    /\ NbtIdle

\* x.serialize(&mut cursor).unwrap()
PositionSerialize ==
    /\ ppc = "start"
    /\ cursor' = Position_serialize(impl, pself, cursor)
    /\ ppc' = "written"
    /\ UNCHANGED <<impl, pself, pout, varintVars, nbtVars>>

\* cursor.seek(SeekFrom::Start(0)) / cursor.set_position(0)
PositionSeek ==
    /\ ppc = "written"
    /\ cursor' = [cursor EXCEPT !.pos = 0]
    /\ ppc' = "seeked"
    /\ UNCHANGED <<impl, pself, pout, varintVars, nbtVars>>

\* Deserialize::deserialize(&mut cursor)
PositionDeserialize ==
    /\ ppc \in {"seeked", "raw"}
    /\ LET d == Position_deserialize(impl, cursor)
       IN /\ pout' = d.out
          /\ cursor' = d.c
    /\ ppc' = IF ppc = "seeked" THEN "done" ELSE "rawdone"
    /\ UNCHANGED <<impl, pself, varintVars, nbtVars>>

PositionNext == PositionSerialize \/ PositionSeek \/ PositionDeserialize

SpecPosition == PositionInit /\ [][PositionNext]_vars

-----------------------------------------------------------------------------
(* Properties of the Position codec.                                       *)

PEncoded == ppc \in {"written", "seeked", "done"}

\* bit k of the two's-complement form of v
FieldBit(v, k) == (v \div Pow2(k)) % 2

\* bit k of ((x & 0x3FFFFFF) << 38) | ((y & 0xFFF) << 26) | (z & 0x3FFFFFF)
PackedBit(p, k) ==
    IF k < 26 THEN FieldBit(p.z, k)
    ELSE IF k < 38 THEN FieldBit(p.y, k - 26)
    ELSE FieldBit(p.x, k - 38)

\* bit k of the big-endian u64 held by 8 bytes
StreamBit(buf, k) == (buf[8 - (k \div 8)] \div Pow2(k % 8)) % 2

\* v reduced to n bits and sign-extended
SignedMod(v, n) ==
    LET m == v % Pow2(n)
    IN IF m >= Pow2(n - 1) THEN m - Pow2(n) ELSE m

InRange(v, n) == v >= -Pow2(n - 1) /\ v <= Pow2(n - 1) - 1

\* C7: a Position is written as exactly 8 bytes whose big-endian u64 is
\* ((x & 0x3FFFFFF) << 38) | ((y & 0xFFF) << 26) | (z & 0x3FFFFFF), by the
\* direct coder and by the serde coder.
C7_PositionPacking ==
    PEncoded =>
        /\ Len(cursor.buf) = 8
        /\ \A k \in 0..63 : StreamBit(cursor.buf, k) = PackedBit(pself, k)

C7_Witness ==
    /\ ppc = "written" /\ impl = "serde"
    /\ pself = [x |-> IMin(32), y |-> -1, z |-> Pow2(25)]
    /\ cursor.buf = <<0, 0, 0, 63, 254, 0, 0, 0>>

\* C8 as stated: Position{1, 2, 3} is written as 00 00 00 40 80 00 00 03 and
\* these bytes are read back as Position{1, 2, 3}.
C8_AsStated ==
    /\ (PEncoded /\ pself = [x |-> 1, y |-> 2, z |-> 3])
          => cursor.buf = <<0, 0, 0, 64, 128, 0, 0, 3>>
    /\ (ppc = "rawdone" /\ cursor.buf = <<0, 0, 0, 64, 128, 0, 0, 3>>)
          => (pout.res = "Ok" /\ pout.x = 1 /\ pout.y = 2 /\ pout.z = 3)

\* C8, amended: Position{1, 2, 3} is written as 00 00 00 40 08 00 00 03 and
\* these bytes are read back as Position{1, 2, 3}.
C8_PositionExample ==
    /\ (PEncoded /\ pself = [x |-> 1, y |-> 2, z |-> 3])
          => cursor.buf = <<0, 0, 0, 64, 8, 0, 0, 3>>
    /\ (ppc \in {"done", "rawdone"} /\ cursor.buf = <<0, 0, 0, 64, 8, 0, 0, 3>>)
          => (pout.res = "Ok" /\ pout.x = 1 /\ pout.y = 2 /\ pout.z = 3)

C8_Witness ==
    /\ ppc = "done" /\ pself = [x |-> 1, y |-> 2, z |-> 3]
    /\ cursor.buf = <<0, 0, 0, 64, 8, 0, 0, 3>>
    /\ pout.x = 1 /\ pout.y = 2 /\ pout.z = 3

\* C9: decoding an encoded Position gives each field reduced to 26, 12, 26
\* bits and sign-extended, so a Position whose fields are in range is
\* returned unchanged; every decoded field is in range and the subtraction
\* of the sign extension never overflows its type.
C9_PositionRoundTrip ==
    /\ ppc = "done" =>
          /\ pout.res = "Ok"
          /\ pout.x = SignedMod(pself.x, 26)
          /\ pout.y = SignedMod(pself.y, 12)
          /\ pout.z = SignedMod(pself.z, 26)
          /\ (InRange(pself.x, 26) /\ InRange(pself.y, 12) /\ InRange(pself.z, 26)
                => (pout.x = pself.x /\ pout.y = pself.y /\ pout.z = pself.z))
    /\ (ppc \in {"done", "rawdone"} /\ pout.res = "Ok") =>
          /\ InRange(pout.x, 26) /\ InRange(pout.y, 12) /\ InRange(pout.z, 26)
          /\ ~pout.overflow

C9_Witness ==
    /\ ppc = "done"
    /\ pself = [x |-> Pow2(25), y |-> -Pow2(11) - 1, z |-> -Pow2(25)]
    /\ pout.x = -Pow2(25) /\ pout.y = Pow2(11) - 1 /\ pout.z = -Pow2(25)

-----------------------------------------------------------------------------
(* CESU-8 (the cesu8 crate), as used by the NBT string payloads.  A string *)
(* is the sequence of its code points.                                     *)

\* one 16-bit unit in three bytes
Cesu8Unit(u) ==
    <<224 + (u \div 4096), 128 + ((u \div 64) % 64), 128 + (u % 64)>>

\* one char: NUL is C0 80, a supplementary char is a surrogate pair
Cesu8Char(c) ==
    IF c = 0 THEN <<192, 128>>
    ELSE IF c < 128 THEN <<c>>
    ELSE IF c < 2048 THEN <<192 + (c \div 64), 128 + (c % 64)>>
    ELSE IF c < 65536 THEN Cesu8Unit(c)
    ELSE Cesu8Unit(55296 + ((c - 65536) \div 1024))
            \o Cesu8Unit(56320 + ((c - 65536) % 1024))

IsPlainAscii(q) == \A i \in 1..Len(q) : q[i] >= 1 /\ q[i] <= 127

\* cesu8::to_java_cesu8
RECURSIVE to_java_cesu8(_)
to_java_cesu8(s) ==
    IF IsPlainAscii(s) THEN s
    ELSE Cesu8Char(Head(s)) \o to_java_cesu8(Tail(s))

IsCont(buf, i) == i <= Len(buf) /\ buf[i] >= 128 /\ buf[i] <= 191

\* cesu8::from_java_cesu8: [ok, s]
RECURSIVE from_java_cesu8(_)
from_java_cesu8(buf) ==
    IF IsPlainAscii(buf) THEN [ok |-> TRUE, s |-> buf]
    ELSE LET b == buf[1]
             bad == [ok |-> FALSE, s |-> <<>>]
             Rest(n, c) ==
                 LET r == from_java_cesu8(SubSeq(buf, n + 1, Len(buf)))
                 IN IF r.ok THEN [ok |-> TRUE, s |-> <<c>> \o r.s] ELSE bad
         IN IF b < 128 THEN Rest(1, b)
            ELSE IF b >= 192 /\ b <= 223 /\ IsCont(buf, 2)
            THEN LET c == (b - 192) * 64 + (buf[2] - 128)
                 IN IF c >= 128 \/ (b = 192 /\ buf[2] = 128) THEN Rest(2, c) ELSE bad
            ELSE IF b = 237 /\ IsCont(buf, 2) /\ buf[2] >= 160 /\ buf[2] <= 175
            THEN IF IsCont(buf, 3) /\ Len(buf) >= 6 /\ buf[4] = 237
                      /\ buf[5] >= 176 /\ buf[5] <= 191 /\ IsCont(buf, 6)
                 THEN Rest(6, 65536 + ((buf[2] - 160) * 64 + (buf[3] - 128)) * 1024
                                   + (buf[5] - 176) * 64 + (buf[6] - 128))
                 ELSE bad
            ELSE IF b >= 224 /\ b <= 239 /\ IsCont(buf, 2) /\ IsCont(buf, 3)
            THEN LET c == (b - 224) * 4096 + (buf[2] - 128) * 64 + (buf[3] - 128)
                 IN IF c >= 2048 /\ ~(c >= 55296 /\ c <= 57343) THEN Rest(3, c) ELSE bad
            ELSE bad

-----------------------------------------------------------------------------
(* NBT serializer: nbt/src/ser.rs.  A serializer is [w, state, res]: the   *)
(* writer, the frame stack and the result of the call in progress.         *)

\* enum State
FirstListItem(size) ==
    [k |-> "FirstListItem", type_id |-> 0, size |-> size, name |-> <<>>]
InList(type_id, size) ==
    [k |-> "InList", type_id |-> type_id, size |-> size, name |-> <<>>]
CompoundBeforeEntry ==
    [k |-> "CompoundBeforeEntry", type_id |-> 0, size |-> 0, name |-> <<>>]
CompoundBeforeEntryValue(name) ==
    [k |-> "CompoundBeforeEntryValue", type_id |-> 0, size |-> 0, name |-> name]

\* VecDeque: back, pop_back, push_back
HasBack(st) == Len(st) > 0
Back(st) == st[Len(st)]
pop_back(st) == SubSeq(st, 1, Len(st) - 1)
push_back(st, f) == Append(st, f)

\* the largest u16 and i32
U16Max == 65535
I32Max == 2147483647

\* self.w.write_all(..)?
Write(sr, bytes) == [sr EXCEPT !.w = write_all(sr.w, bytes)]

Fail(sr, err) == [sr EXCEPT !.res = err]

\* the two's-complement pattern of an i32
I32Bits(v) == AsU64(v) \cap lsb(32)

\* ser_int_payload!: serialize_i8_payload .. serialize_u64_payload
serialize_int_payload(sr, bits, size) == Write(sr, to_be_bytes(bits, size))

serialize_i32_payload(sr, v) == serialize_int_payload(sr, I32Bits(v), 4)

\* serialize_u16_payload
serialize_u16_payload(sr, v) ==
    serialize_int_payload(sr, AsU64(v) \cap lsb(16), 2)

\* Each ..._q operator is the rest of a method after a `?`: an Err in a is
\* returned at once, otherwise the method goes on from a.
Failed(a) == a.res # "Ok"

\* self.serialize_u16_payload(..)?; self.w.write_all(&buf)?
write_all_q(a, buf) == IF Failed(a) THEN a ELSE Write(a, buf)

\* serialize_string_payload
serialize_string_payload(sr, s) ==
    LET buf == to_java_cesu8(s)
    IN IF Len(buf) > U16Max THEN Fail(sr, "StringTooLong")
       ELSE write_all_q(serialize_u16_payload(sr, Len(buf)), buf)

\* serialize_type_id without the comparison of the element's TypeID
serialize_type_id_unchecked(sr, type_id) ==
    IF ~HasBack(sr.state)
         \/ Back(sr.state).k \in {"CompoundBeforeEntryValue", "CompoundBeforeEntry"}
    THEN Write(sr, <<type_id>>)
    ELSE IF Back(sr.state).k = "FirstListItem"
    THEN LET size == Back(sr.state).size
             a == [sr EXCEPT !.state =
                      push_back(pop_back(sr.state), InList(type_id, size - 1))]
         IN serialize_i32_payload(Write(a, <<type_id>>), size)
    ELSE IF Back(sr.state).size = 0 THEN Fail(sr, "Panic")
    ELSE [sr EXCEPT !.state[Len(sr.state)].size = @ - 1]

\* serialize_type_id
serialize_type_id(sr, type_id) ==
    IF ~HasBack(sr.state)
         \/ Back(sr.state).k \in {"CompoundBeforeEntryValue", "CompoundBeforeEntry"}
    THEN Write(sr, <<type_id>>)
    ELSE IF Back(sr.state).k = "FirstListItem"
    THEN LET size == Back(sr.state).size
             a == [sr EXCEPT !.state =
                      push_back(pop_back(sr.state), InList(type_id, size - 1))]
         IN serialize_i32_payload(Write(a, <<type_id>>), size)
    ELSE \* InList
         IF type_id # Back(sr.state).type_id THEN Fail(sr, "Heterogeneous")
         ELSE IF Back(sr.state).size = 0 THEN Fail(sr, "Panic")
         ELSE [sr EXCEPT !.state[Len(sr.state)].size = @ - 1]

\* ..?; self.state.push_back(frame)
push_back_q(a, frame) ==
    IF Failed(a) THEN a ELSE [a EXCEPT !.state = push_back(a.state, frame)]

\* a serialize_name that gives the items of a list the empty name
serialize_name_listed(sr) ==
    IF ~HasBack(sr.state) THEN serialize_string_payload(sr, <<>>)
    ELSE LET top == Back(sr.state)
             popped == [sr EXCEPT !.state = pop_back(sr.state)]
         IN IF top.k \in {"InList", "FirstListItem"}
            THEN serialize_string_payload(sr, <<>>)
            ELSE IF top.k = "CompoundBeforeEntry" THEN Fail(popped, "Panic")
            ELSE push_back_q(serialize_string_payload(popped, top.name),
                             CompoundBeforeEntry)

\* serialize_name
serialize_name(sr) ==
    IF ~HasBack(sr.state) THEN serialize_string_payload(sr, <<>>)
    ELSE LET top == Back(sr.state)
             popped == [sr EXCEPT !.state = pop_back(sr.state)]
         IN IF top.k \in {"InList", "FirstListItem"}
            THEN [popped EXCEPT !.state = push_back(popped.state, top)]
            ELSE IF top.k = "CompoundBeforeEntry" THEN Fail(popped, "Panic")
            ELSE push_back_q(serialize_string_payload(popped, top.name),
                             CompoundBeforeEntry)

\* self.serialize_type_id(..)?; self.serialize_name()?
serialize_name_q(a) == IF Failed(a) THEN a ELSE serialize_name(a)

\* the name first and the TypeID after it
serialize_header_swapped(sr, type_id) ==
    LET a == serialize_name(sr)
    IN IF Failed(a) THEN a ELSE serialize_type_id(a, type_id)

\* the TypeID and the name that every tag starts with
serialize_header(sr, type_id) == serialize_name_q(serialize_type_id(sr, type_id))

\* ..?; self.$payload(v)
serialize_int_payload_q(a, bits, size) ==
    IF Failed(a) THEN a ELSE serialize_int_payload(a, bits, size)

\* ser_tag!: serialize_i8 .. serialize_f64 (floats go by to_bits)
ser_tag(sr, type_id, bits, size) ==
    serialize_int_payload_q(serialize_header(sr, type_id), bits, size)

\* ..?; self.serialize_string_payload(v)
serialize_string_payload_q(a, v) ==
    IF Failed(a) THEN a ELSE serialize_string_payload(a, v)

\* a serialize_str that writes every string as a tag
serialize_str_eager(sr, v) ==
    serialize_string_payload_q(serialize_header(sr, 8), v)

\* serialize_str
serialize_str(sr, v) ==
    IF HasBack(sr.state) /\ Back(sr.state) = CompoundBeforeEntry
    THEN [sr EXCEPT !.state =
             push_back(pop_back(sr.state), CompoundBeforeEntryValue(v))]
    ELSE serialize_string_payload_q(serialize_header(sr, 8), v)

\* ..?; self.state.push_back(State::FirstListItem { size: i32::try_from(len)? })
push_first_list_item_q(a, len) ==
    IF Failed(a) THEN a
    ELSE IF len > I32Max THEN Fail(a, "TupleTooLong")
    ELSE [a EXCEPT !.state = push_back(a.state, FirstListItem(len))]

\* serialize_seq(Some(len)) -> serialize_tuple(len)
serialize_tuple(sr, len) == push_first_list_item_q(serialize_header(sr, 9), len)

\* ..?; self.state.pop_back()
pop_back_q(a) == IF Failed(a) THEN a ELSE [a EXCEPT !.state = pop_back(a.state)]

\* SerializeTuple::end that closes an empty list without a header
SerializeTuple_end_bare(sr) ==
    IF HasBack(sr.state) /\ Back(sr.state).k \in {"InList", "FirstListItem"}
         /\ Back(sr.state).size = 0
    THEN [sr EXCEPT !.state = pop_back(sr.state)]
    ELSE Fail(sr, "Panic")

\* a SerializeTuple::end that closes a list whatever is left of its size
SerializeTuple_end_lax(sr) ==
    IF HasBack(sr.state) /\ Back(sr.state).k = "InList"
    THEN [sr EXCEPT !.state = pop_back(sr.state)]
    ELSE IF HasBack(sr.state) /\ Back(sr.state).k = "FirstListItem"
              /\ Back(sr.state).size = 0
    THEN pop_back_q(serialize_i32_payload(Write(sr, <<0>>), Back(sr.state).size))
    ELSE Fail(sr, "Panic")

\* SerializeSeq::end -> SerializeTuple::end
SerializeTuple_end(sr) ==
    IF HasBack(sr.state) /\ Back(sr.state).k = "InList" /\ Back(sr.state).size = 0
    THEN [sr EXCEPT !.state = pop_back(sr.state)]
    ELSE IF HasBack(sr.state) /\ Back(sr.state).k = "FirstListItem"
              /\ Back(sr.state).size = 0
    THEN pop_back_q(serialize_i32_payload(Write(sr, <<0>>), Back(sr.state).size))
    ELSE Fail(sr, "Panic")

\* a serialize_map that opens no frame
serialize_map_flat(sr) == serialize_header(sr, 10)

\* serialize_map
serialize_map(sr) == push_back_q(serialize_header(sr, 10), CompoundBeforeEntry)

\* self.serialize_type_id(0)?; assert_eq!(self.state.pop_back(), Some(CompoundBeforeEntry))
assert_pop_q(a) ==
    IF Failed(a) THEN a
    ELSE IF HasBack(a.state) /\ Back(a.state) = CompoundBeforeEntry
    THEN [a EXCEPT !.state = pop_back(a.state)]
    ELSE Fail([a EXCEPT !.state = pop_back(a.state)], "Panic")

\* SerializeMap::end that writes no TAG_End
SerializeMap_end_open(sr) == assert_pop_q(sr)

\* SerializeMap::end
SerializeMap_end(sr) == assert_pop_q(serialize_type_id(sr, 0))

-----------------------------------------------------------------------------
(* NBT deserializer: nbt/src/de.rs.  A deserializer is [r, state]; a call  *)
(* returns [r, state, out, val] where out tells how the call ended: the    *)
(* visitor received the value val ("value"), the visitor was handed the    *)
(* sequence or map access ("seq", "map"), the access is exhausted ("end"), *)
(* or the call failed (any other out).                                     *)

\* enum DeserializerState
ListBeforeItem(size, type_id) ==
    [k |-> "ListBeforeItem", size |-> size, type_id |-> type_id]
DeCompoundBeforeEntry ==
    [k |-> "CompoundBeforeEntry", size |-> 0, type_id |-> 0]
CompoundBeforeEntryName(type_id) ==
    [k |-> "CompoundBeforeEntryName", size |-> 0, type_id |-> type_id]
CompoundBeforeEntryPayload(type_id) ==
    [k |-> "CompoundBeforeEntryPayload", size |-> 0, type_id |-> type_id]

\* the values the visitor builds
Leaf(t, bits) == [t |-> t, bits |-> bits, s |-> <<>>, items |-> <<>>]
Str(s) == [t |-> 8, bits |-> {}, s |-> s, items |-> <<>>]
Bytes(b) == [t |-> 7, bits |-> {}, s |-> b, items |-> <<>>]
ListOf(items) == [t |-> 9, bits |-> {}, s |-> <<>>, items |-> items]
MapOf(entries) == [t |-> 10, bits |-> {}, s |-> <<>>, items |-> entries]

Ret(d, out, val) == [r |-> d.r, state |-> d.state, out |-> out, val |-> val]
DeOk(a) == a.out = "Ok"

\* Each ..._q operator is the rest of a method after a `?`: an Err in a is
\* returned at once, otherwise the method goes on from a and its value a.val.

\* let mut buf = vec![0; n]; self.r.read_exact(&mut buf)
read_buf(d, n) ==
    LET rd == read_exact(d.r, n)
    IN Ret([d EXCEPT !.r = rd.c], IF rd.ok THEN "Ok" ELSE "IoError", rd.bytes)

\* ..?; Ok(<$ty>::from_be_bytes(buf)), as a bit pattern
from_be_bytes_q(a) == IF ~DeOk(a) THEN a ELSE Ret(a, "Ok", from_be_bytes(a.val))

\* de_int!: parse_i8 .. parse_u64, the bit pattern read
parse_int(d, size) == from_be_bytes_q(read_buf(d, size))

\* the value of a w-bit pattern as a signed integer (w <= 32)
SignedValue(bits, w) ==
    AsUnsigned(bits \ {w - 1}) + (IF (w - 1) \in bits THEN IMin(w) ELSE 0)

signed_q(a, w) == IF ~DeOk(a) THEN a ELSE Ret(a, "Ok", SignedValue(a.val, w))

\* parse_i16
parse_i16(d) == signed_q(parse_int(d, 2), 16)

\* parse_i32
parse_i32(d) == signed_q(parse_int(d, 4), 32)

\* a parse_usize that lets every value through
parse_usize_any(a) == a

\* ..?; self.parse_usize(value, ..): usize::try_from(value)
parse_usize(a) ==
    IF ~DeOk(a) THEN a
    ELSE IF a.val < 0 THEN Ret(a, "InvalidLength", 0) ELSE a

\* ..?; let mut buf = vec![0; size]; self.r.read_exact(&mut buf)
read_buf_q(a) == IF ~DeOk(a) THEN a ELSE read_buf(a, a.val)

\* ..?; cesu8::from_java_cesu8(&buf).map(..).map_err(..)
from_java_cesu8_q(a) ==
    IF ~DeOk(a) THEN a
    ELSE LET u == from_java_cesu8(a.val)
         IN IF u.ok THEN Ret(a, "Ok", u.s) ELSE Ret(a, "InvalidString", <<>>)

\* parse_string
parse_string(d) == from_java_cesu8_q(read_buf_q(parse_usize(parse_i16(d))))

\* ..?; Ok(buf[0])
first_byte_q(a) == IF ~DeOk(a) THEN a ELSE Ret(a, "Ok", a.val[1])

\* parse_type_id
parse_type_id(d) == first_byte_q(read_buf(d, 1))

\* size_of of the payload of TAG_Byte .. TAG_Double
PayloadSize(type_id) == <<1, 2, 4, 8, 4, 8>>[type_id]

\* visitor.visit_i8(self.parse_i8()?) .. visitor.visit_f64(self.parse_f64()?)
visit_leaf_q(a, type_id) ==
    IF ~DeOk(a) THEN a ELSE Ret(a, "value", Leaf(type_id, a.val))

\* ..?; visitor.visit_byte_buf(buf)
visit_byte_buf_q(a) == IF ~DeOk(a) THEN a ELSE Ret(a, "value", Bytes(a.val))

\* visitor.visit_string(self.parse_string()?)
visit_string_q(a) == IF ~DeOk(a) THEN a ELSE Ret(a, "value", Str(a.val))

\* ..?; self.state.push_back(ListBeforeItem { size, type_id }); visitor.visit_seq(..)
visit_seq_q(a, type_id) ==
    IF ~DeOk(a) THEN a
    ELSE Ret([a EXCEPT !.state = push_back(a.state, ListBeforeItem(a.val, type_id))],
             "seq", 0)

\* let type_id = self.parse_type_id()?; let size = ..
list_header_q(t) ==
    IF ~DeOk(t) THEN t ELSE visit_seq_q(parse_usize(parse_i32(t)), t.val)

\* a parse_tag_payload that takes an unknown TypeID for a compound
parse_tag_payload_open(d, type_id) ==
    IF type_id \in 1..6 THEN visit_leaf_q(parse_int(d, PayloadSize(type_id)), type_id)
    ELSE IF type_id = 7 THEN visit_byte_buf_q(read_buf_q(parse_usize(parse_i32(d))))
    ELSE IF type_id = 8 THEN visit_string_q(parse_string(d))
    ELSE IF type_id = 9 THEN list_header_q(parse_type_id(d))
    ELSE Ret([d EXCEPT !.state = push_back(d.state, DeCompoundBeforeEntry)], "map", 0)

\* parse_tag_payload
parse_tag_payload(d, type_id) ==
    IF type_id \in 1..6 THEN visit_leaf_q(parse_int(d, PayloadSize(type_id)), type_id)
    ELSE IF type_id = 7 THEN visit_byte_buf_q(read_buf_q(parse_usize(parse_i32(d))))
    ELSE IF type_id = 8 THEN visit_string_q(parse_string(d))
    ELSE IF type_id = 9 THEN list_header_q(parse_type_id(d))
    ELSE IF type_id = 10
    THEN Ret([d EXCEPT !.state = push_back(d.state, DeCompoundBeforeEntry)], "map", 0)
    ELSE Ret(d, "InvalidTypeId", type_id)

\* self.parse_string()?; self.parse_tag_payload(visitor, type_id)
parse_tag_payload_q(a, type_id) ==
    IF ~DeOk(a) THEN a ELSE parse_tag_payload(a, type_id)

\* a deserialize_any that reads a name before every payload
deserialize_payload_named(d, type_id) ==
    parse_tag_payload_q(parse_string(d), type_id)

\* deserialize_any, after the TypeID is known: the root name, then the payload
deserialize_payload(d, type_id) ==
    IF Len(d.state) = 0
    THEN parse_tag_payload_q(parse_string(d), type_id)
    ELSE parse_tag_payload(d, type_id)

\* None => self.parse_type_id()?
deserialize_payload_q(t) == IF ~DeOk(t) THEN t ELSE deserialize_payload(t, t.val)

\* a deserialize_any that puts every frame back as it was
Replaced_same(top) == top

\* the frame that deserialize_any leaves in place of the one it popped
Replaced(top) ==
    IF top.k = "ListBeforeItem" THEN top
    ELSE IF top.k = "CompoundBeforeEntryName" THEN CompoundBeforeEntryPayload(top.type_id)
    ELSE DeCompoundBeforeEntry

\* deserialize_any
deserialize_any(d) ==
    IF ~HasBack(d.state) THEN deserialize_payload_q(parse_type_id(d))
    ELSE LET top == Back(d.state)
             popped == [d EXCEPT !.state = pop_back(d.state)]
             pushed == [d EXCEPT !.state = push_back(pop_back(d.state), Replaced(top))]
         IN IF top.k = "CompoundBeforeEntry" THEN Ret(popped, "Panic", 0)
            ELSE IF top.k = "CompoundBeforeEntryName"
            THEN visit_string_q(parse_string(pushed))
            ELSE deserialize_payload(pushed, top.type_id)

\* a next_element_seed that puts the frame back with the size it had
next_element_seed_undec(d) ==
    LET popped == [d EXCEPT !.state = pop_back(d.state)]
    IN IF HasBack(d.state) /\ Back(d.state).k = "ListBeforeItem"
       THEN IF Back(d.state).size = 0 THEN Ret(popped, "end", 0)
            ELSE deserialize_any(d)
       ELSE Ret(popped, "InvalidState", 0)

\* a next_element_seed that leaves the frame of a finished list in place
next_element_seed_keep(d) ==
    LET popped == [d EXCEPT !.state = pop_back(d.state)]
    IN IF HasBack(d.state) /\ Back(d.state).k = "ListBeforeItem"
       THEN IF Back(d.state).size = 0 THEN Ret(d, "end", 0)
            ELSE deserialize_any(
                   [popped EXCEPT !.state =
                      push_back(popped.state,
                                ListBeforeItem(Back(d.state).size - 1, Back(d.state).type_id))])
       ELSE Ret(popped, "InvalidState", 0)

\* SeqAccess::next_element_seed
next_element_seed(d) ==
    LET popped == [d EXCEPT !.state = pop_back(d.state)]
    IN IF HasBack(d.state) /\ Back(d.state).k = "ListBeforeItem"
       THEN IF Back(d.state).size = 0 THEN Ret(popped, "end", 0)
            ELSE deserialize_any(
                   [popped EXCEPT !.state =
                      push_back(popped.state,
                                ListBeforeItem(Back(d.state).size - 1, Back(d.state).type_id))])
       ELSE Ret(popped, "InvalidState", 0)

\* match self.parse_type_id()? { 0 => Ok(None), type_id => .. }
next_key_q(t) ==
    IF ~DeOk(t) THEN t
    ELSE IF t.val = 0 THEN Ret(t, "end", 0)
    ELSE deserialize_any(
           [t EXCEPT !.state = push_back(t.state, CompoundBeforeEntryName(t.val))])

\* MapAccess::next_key_seed
next_key_seed(d) ==
    IF HasBack(d.state) /\ Back(d.state).k = "CompoundBeforeEntry"
    THEN next_key_q(parse_type_id([d EXCEPT !.state = pop_back(d.state)]))
    ELSE Ret([d EXCEPT !.state = pop_back(d.state)], "InvalidState", 0)

\* MapAccess::next_value_seed
next_value_seed(d) ==
    IF HasBack(d.state) /\ Back(d.state).k = "CompoundBeforeEntryPayload"
    THEN deserialize_any(d)
    ELSE Ret(d, "InvalidState", 0)

-----------------------------------------------------------------------------
(* The value model around the NBT codec: serde_value::Value as the tests   *)
(* of nbt/src/lib.rs use it.  A value is [t, bits, s, items]; t is the     *)
(* TypeID of its tag; the entries of a map are [k, v], sorted by key.      *)

Concat(f, n) ==
    LET RECURSIVE C(_)
        C(i) == IF i > n THEN <<>> ELSE f[i] \o C(i + 1)
    IN C(1)

Call(op, t, bits, str, len) ==
    [op |-> op, t |-> t, bits |-> bits, s |-> str, len |-> len]

\* Serialize for Value: the serializer calls, in order
RECURSIVE Events(_)
Events(v) ==
    IF v.t \in 1..6 THEN <<Call("tag", v.t, v.bits, <<>>, 0)>>
    ELSE IF v.t = 8 THEN <<Call("str", 8, {}, v.s, 0)>>
    ELSE IF v.t = 9
    THEN <<Call("seq", 9, {}, <<>>, Len(v.items))>>
            \o Concat([i \in 1..Len(v.items) |-> Events(v.items[i])], Len(v.items))
            \o <<Call("seq_end", 9, {}, <<>>, 0)>>
    ELSE <<Call("map", 10, {}, <<>>, Len(v.items))>>
            \o Concat([i \in 1..Len(v.items) |->
                          <<Call("str", 8, {}, v.items[i].k, 0)>> \o Events(v.items[i].v)],
                      Len(v.items))
            \o <<Call("map_end", 10, {}, <<>>, 0)>>

\* Ord for String: a < b
StrLess(a, b) ==
    \E i \in 1..Len(b) :
        /\ \A j \in 1..(i - 1) : j <= Len(a) /\ a[j] = b[j]
        /\ (i > Len(a) \/ (i <= Len(a) /\ a[i] < b[i]))

\* BTreeMap::insert
BTreeInsert(entries, k, v) ==
    IF \E i \in 1..Len(entries) : entries[i].k = k
    THEN [i \in 1..Len(entries) |->
             IF entries[i].k = k THEN [k |-> k, v |-> v] ELSE entries[i]]
    ELSE LET n == Cardinality({i \in 1..Len(entries) : StrLess(entries[i].k, k)})
         IN SubSeq(entries, 1, n) \o <<[k |-> k, v |-> v]>>
               \o SubSeq(entries, n + 1, Len(entries))

\* ValueVisitor::visit_seq / visit_map in progress
SeqVisitor == [kind |-> "seq", acc |-> <<>>, key |-> <<>>, haskey |-> FALSE]
MapVisitor == [kind |-> "map", acc |-> <<>>, key |-> <<>>, haskey |-> FALSE]

\* the visitor takes the next element, key or value
Receive(f, v) ==
    IF f.kind = "seq" THEN [f EXCEPT !.acc = Append(@, v)]
    ELSE IF ~f.haskey THEN [f EXCEPT !.key = v.s, !.haskey = TRUE]
    ELSE [f EXCEPT !.acc = BTreeInsert(@, f.key, v), !.haskey = FALSE]

\* Value::Seq / Value::Map once the access is exhausted
Built(f) == IF f.kind = "seq" THEN ListOf(f.acc) ELSE MapOf(f.acc)

-----------------------------------------------------------------------------
(* The documents of the NBT harness.                                       *)

\* a pattern with the sign bit, the lowest bit of the top byte and bit 1 set
Asym(w) == {1, w - 8, w - 1}

IntLeaves == {Leaf(t, b) : t \in {1}, b \in {{}, Asym(8), AllOnes(8)}}
               \cup {Leaf(2, b) : b \in {{}, Asym(16)}}
               \cup {Leaf(t, b) : t \in {3, 5}, b \in {{}, Asym(32)}}
               \cup {Leaf(t, b) : t \in {4, 6}, b \in {{}, Asym(64)}}

\* NUL, a, e-acute, the euro sign, U+1F600
Alphabet == {0, 97, 233, 8364, 128512}

ShortStrings ==
    {<<>>} \cup {<<c>> : c \in Alphabet} \cup {<<c, e>> : c \in Alphabet, e \in Alphabet}

\* the largest i16
I16Max == 32767

LongStrings ==
    {[i \in 1..n |-> 97] : n \in {I16Max, I16Max + 1, U16Max, U16Max + 1}}

KeySample == {<<>>, <<97>>, <<233>>}

CoreLeaves ==
    {Leaf(1, {}), Leaf(1, Asym(8)), Leaf(3, Asym(32)), Leaf(6, Asym(64)),
     Str(<<>>), Str(<<97, 0>>)}

\* homogeneous sequences of at most n values of V
RECURSIVE Homogeneous(_, _)
Homogeneous(V, n) ==
    IF n = 0 THEN {<<>>}
    ELSE LET H == Homogeneous(V, n - 1)
         IN H \cup {Append(q, v) : q \in {h \in H : Len(h) = n - 1},
                                   v \in V}
Uniform(q) == \A i \in 1..Len(q) : q[i].t = q[1].t

\* entry sequences of at most n entries with increasing keys
RECURSIVE Entries(_, _)
Entries(V, n) ==
    IF n = 0 THEN {<<>>}
    ELSE LET E == Entries(V, n - 1)
         IN E \cup {Append(q, [k |-> k, v |-> v]) :
                      q \in {e \in E : Len(e) = n - 1}, k \in KeySample, v \in V}
Increasing(q) == \A i \in 1..(Len(q) - 1) : StrLess(q[i].k, q[i + 1].k)

LeafContainers ==
    {ListOf(q) : q \in {h \in Homogeneous(CoreLeaves, MaxItems) : Uniform(h)}}
        \cup {MapOf(q) : q \in {e \in Entries(CoreLeaves, MaxItems) : Increasing(e)}}

\* containers that are nested further
Seeds ==
    {ListOf(<<>>), ListOf(<<Leaf(1, Asym(8))>>), ListOf(<<Str(<<97>>), Str(<<>>)>>),
     MapOf(<<>>), MapOf(<<[k |-> <<97>>, v |-> Leaf(1, Asym(8))]>>),
     MapOf(<<[k |-> <<>>, v |-> Str(<<97>>)], [k |-> <<97>>, v |-> Leaf(2, Asym(16))]>>)}

Empty(t) == IF t = 9 THEN ListOf(<<>>) ELSE MapOf(<<>>)

Wraps(v) ==
    {ListOf(<<v, v>>), ListOf(<<Empty(v.t), v>>),
     MapOf(<<[k |-> <<>>, v |-> v], [k |-> <<97>>, v |-> Leaf(1, Asym(8))]>>)}

\* the containers of depth n + 1 built from the seeds
RECURSIVE Nest(_)
Nest(n) == IF n = 0 THEN Seeds ELSE UNION {Wraps(v) : v \in Nest(n - 1)}

\* a compound whose key is long
LongKeyDocs == {MapOf(<<[k |-> q, v |-> Leaf(1, Asym(8))]>>) : q \in LongStrings}

\* Item { name: "cake", price: 2.5 }; 2.5 is 0x4004_0000_0000_0000
CakeDoc ==
    MapOf(<<[k |-> <<110, 97, 109, 101>>, v |-> Str(<<99, 97, 107, 101>>)],
            [k |-> <<112, 114, 105, 99, 101>>, v |-> Leaf(6, {50, 62})]>>)

Docs ==
    IntLeaves \cup {Str(q) : q \in ShortStrings \cup LongStrings}
        \cup LeafContainers \cup LongKeyDocs \cup {CakeDoc}
        \cup UNION {Nest(n) : n \in 0..(MaxDepth - 1)}

-----------------------------------------------------------------------------
(* The NBT harness: roundtrip! in nbt/src/lib.rs.                          *)

NbtInit ==
    /\ impl = "direct"
    /\ npc = "start"
    /\ doc \in Docs
    /\ calls = Events(doc)
    /\ log = <<>>
    /\ cursor = [buf |-> <<>>, pos |-> 0]
    /\ sstate = <<>> /\ sres = "none"
    /\ dstate = <<>> /\ vis = <<>> /\ dres = NoDres
    /\ VarIntIdle
    /\ PositionIdle

\* the serializer as the next call finds it
Ser == [w |-> cursor, state |-> sstate, res |-> "Ok"]

\* the call returns: the value's Serialize impl goes on, or gives up on Err
Returned(a) ==
    /\ cursor' = a.w
    /\ sstate' = a.state
    /\ sres' = a.res
    /\ calls' = IF a.res = "Ok" THEN Tail(calls) ELSE <<>>
    /\ log' = Append(log, [op |-> Head(calls).op, t |-> Head(calls).t,
                            len |-> Head(calls).len, pos |-> a.w.pos])
    /\ npc' = IF a.res # "Ok" THEN "serfailed"
              ELSE IF Len(calls) = 1 THEN "written" ELSE "start"
    /\ UNCHANGED <<impl, doc, dstate, vis, dres, varintVars, posVars>>

NextCall(op) == npc = "start" /\ calls # <<>> /\ Head(calls).op = op

\* serialize_i8 .. serialize_f64
NbtSerializeTag ==
    /\ NextCall("tag")
    /\ Returned(ser_tag(Ser, Head(calls).t, Head(calls).bits, PayloadSize(Head(calls).t)))

\* serialize_str
NbtSerializeStr ==
    /\ NextCall("str")
    /\ Returned(serialize_str(Ser, Head(calls).s))

\* serialize_seq
NbtSerializeSeq ==
    /\ NextCall("seq")
    /\ Returned(serialize_tuple(Ser, Head(calls).len))

\* SerializeSeq::end
NbtSeqEnd ==
    /\ NextCall("seq_end")
    /\ Returned(SerializeTuple_end(Ser))

\* serialize_map
NbtSerializeMap ==
    /\ NextCall("map")
    /\ Returned(serialize_map(Ser))

\* SerializeMap::end
NbtMapEnd ==
    /\ NextCall("map_end")
    /\ Returned(SerializeMap_end(Ser))

\* cursor.set_position(0)
NbtSetPosition ==
    /\ npc = "written"
    /\ cursor' = [cursor EXCEPT !.pos = 0]
    /\ npc' = "seeked"
    /\ UNCHANGED <<impl, doc, calls, log, sstate, sres, dstate, vis, dres,
                   varintVars, posVars>>

\* the deserializer as the next call finds it
De == [r |-> cursor, state |-> dstate]

\* the value v reaches the visitor on top of vs, or is the document
Deliver(vs, v) ==
    IF vs = <<>>
    THEN /\ npc' = "done" /\ vis' = vs /\ dres' = [res |-> "Ok", val |-> v, arg |-> 0]
    ELSE /\ npc' = "visiting" /\ dres' = dres
         /\ vis' = [vs EXCEPT ![Len(vs)] = Receive(@, v)]

\* what the value model does when a deserializer call ends
Visit(a) ==
    /\ cursor' = a.r
    /\ dstate' = a.state
    /\ IF a.out = "value" THEN Deliver(vis, a.val)
       ELSE IF a.out \in {"seq", "map"}
       THEN /\ vis' = Append(vis, IF a.out = "seq" THEN SeqVisitor ELSE MapVisitor)
            /\ npc' = "visiting" /\ dres' = dres
       ELSE IF a.out = "end" THEN Deliver(pop_back(vis), Built(Back(vis)))
       ELSE /\ npc' = "failed" /\ vis' = vis
            /\ dres' = [res |-> a.out, val |-> NoVal,
                     arg |-> IF a.out = "InvalidTypeId" THEN a.val ELSE 0]
    /\ UNCHANGED <<impl, doc, calls, log, sstate, sres, varintVars, posVars>>

\* Deserialize::deserialize(&mut deserializer) -> deserialize_any
NbtDeserializeAny ==
    /\ npc = "seeked"
    /\ Visit(deserialize_any(De))

\* SeqAccess::next_element
NbtNextElement ==
    /\ npc = "visiting" /\ Back(vis).kind = "seq"
    /\ Visit(next_element_seed(De))

\* MapAccess::next_key
NbtNextKey ==
    /\ npc = "visiting" /\ Back(vis).kind = "map" /\ ~Back(vis).haskey
    /\ Visit(next_key_seed(De))

\* MapAccess::next_value
NbtNextValue ==
    /\ npc = "visiting" /\ Back(vis).kind = "map" /\ Back(vis).haskey
    /\ Visit(next_value_seed(De))

NbtNext ==
    \/ NbtSerializeTag \/ NbtSerializeStr \/ NbtSerializeSeq \/ NbtSeqEnd
    \/ NbtSerializeMap \/ NbtMapEnd \/ NbtSetPosition
    \/ NbtDeserializeAny \/ NbtNextElement \/ NbtNextKey \/ NbtNextValue

SpecNbt == NbtInit /\ [][NbtNext]_vars

-----------------------------------------------------------------------------
(* NBT properties.                                                         *)

\* the harness has run the deserializer to its end over a written document
Decoded == npc \in {"done", "failed"}

\* C1: every document that the serializer wrote is read back by the
\* deserializer, successfully and as a tree equal to the original.  The code
\* violates it for a document holding a string of 32768 or more encoded
\* bytes (see C10).
C1_NbtRoundTrip ==
    Decoded => (dres.res = "Ok" /\ dres.val = doc)

\* C10: a string whose encoded length is within 0..65535, which the
\* serializer writes with a u16 prefix, is decoded to the same string, be it
\* a tag's payload or the name of a compound's entry.  The code reads the
\* prefix with parse_i16, so that a length of 32768 or more is negative and
\* parse_usize refuses it.
C10_StringLengthU16 ==
    (Decoded /\ (doc.t = 8 \/ doc \in LongKeyDocs))
        => (dres.res = "Ok" /\ dres.val.t = doc.t
              /\ dres.val.s = doc.s /\ dres.val.items = doc.items)

-----------------------------------------------------------------------------
(* NBT serializer: the methods that serde_value::Value of the round-trip   *)
(* harness does not call.                                                  *)

\* serialize_bytearray_payload
serialize_bytearray_payload(sr, buf) ==
    IF Len(buf) > I32Max THEN Fail(sr, "ByteArrayTooLong")
    ELSE write_all_q(serialize_i32_payload(sr, Len(buf)), buf)

\* ..?; self.serialize_bytearray_payload(v)
serialize_bytearray_payload_q(a, buf) ==
    IF Failed(a) THEN a ELSE serialize_bytearray_payload(a, buf)

\* ser_tag!: serialize_bytes
nbt_serialize_bytes(sr, v) == serialize_bytearray_payload_q(serialize_header(sr, 7), v)

\* ser_unsupported!: serialize_u8 .. serialize_unit; serialize_unit_struct goes
\* to serialize_unit and serialize_unit_variant to serialize_u32
Unsupported ==
    {"serialize_u8", "serialize_u16", "serialize_u32", "serialize_u64",
     "serialize_char", "serialize_bool", "serialize_unit",
     "serialize_unit_struct", "serialize_unit_variant"}

ser_unsupported(sr) == Fail(sr, "Unsupported")

\* the methods whose body is unimplemented!()
Unimplemented ==
    {"serialize_newtype_variant", "serialize_tuple_struct",
     "serialize_tuple_variant", "serialize_struct_variant"}

unimplemented(sr) == Fail(sr, "Panic")

\* a serialize_none that counts as a value of TypeID 0
serialize_none_counted(sr) == serialize_header(sr, 0)

\* serialize_none
serialize_none(sr) == sr

-----------------------------------------------------------------------------
(* The NBT call harness: a caller of the serializer (any Serialize impl)   *)
(* makes up to MaxCalls calls, whatever the state of the serializer.       *)

CallAlphabet ==
    {Call("tag", 1, Asym(8), <<>>, 0), Call("tag", 3, Asym(32), <<>>, 0),
     Call("bytes", 7, {}, <<1, 2>>, 0), Call("str", 8, {}, <<97>>, 0),
     Call("seq_end", 9, {}, <<>>, 0), Call("map", 10, {}, <<>>, 0),
     Call("map_end", 10, {}, <<>>, 0), Call("none", 0, {}, <<>>, 0)}
        \cup {Call("seq", 9, {}, <<>>, n) : n \in 0..2}
        \cup {Call(m, 0, {}, <<>>, 0) : m \in Unsupported \cup Unimplemented}

NbtCallsInit ==
    /\ impl = "direct"
    /\ npc = "calling"
    /\ doc = NoVal
    /\ calls = <<>> /\ log = <<>>
    /\ cursor = [buf |-> <<>>, pos |-> 0]
    /\ sstate = <<>> /\ sres = "none"
    /\ dstate = <<>> /\ vis = <<>> /\ dres = NoDres
    /\ VarIntIdle
    /\ PositionIdle

\* the caller decides on its next call
NbtChoose ==
    /\ npc \in {"calling", "written"}
    /\ Len(log) < MaxCalls
    /\ \E c \in CallAlphabet : calls' = <<c>>
    /\ npc' = "start"
    /\ UNCHANGED <<impl, cursor, doc, log, sstate, sres, dstate, vis, dres,
                   varintVars, posVars>>

\* serialize_bytes
NbtSerializeBytes ==
    /\ NextCall("bytes")
    /\ Returned(nbt_serialize_bytes(Ser, Head(calls).s))

\* serialize_u8 .. serialize_unit, serialize_unit_struct, serialize_unit_variant
NbtSerializeUnsupported ==
    /\ \E m \in Unsupported : NextCall(m)
    /\ Returned(ser_unsupported(Ser))

\* serialize_newtype_variant, serialize_tuple_struct, serialize_tuple_variant,
\* serialize_struct_variant
NbtSerializeUnimplemented ==
    /\ \E m \in Unimplemented : NextCall(m)
    /\ Returned(unimplemented(Ser))

\* serialize_none
NbtSerializeNone ==
    /\ NextCall("none")
    /\ Returned(serialize_none(Ser))

NbtCallsNext ==
    \/ NbtChoose
    \/ NbtSerializeTag \/ NbtSerializeStr \/ NbtSerializeSeq \/ NbtSeqEnd
    \/ NbtSerializeMap \/ NbtMapEnd \/ NbtSerializeBytes
    \/ NbtSerializeUnsupported \/ NbtSerializeUnimplemented \/ NbtSerializeNone

SpecNbtCalls == NbtCallsInit /\ [][NbtCallsNext]_vars

-----------------------------------------------------------------------------
(* Properties of the NBT serializer under arbitrary callers.               *)

\* the call about to be made and the frame it finds on top
Calling(ops) == npc = "start" /\ Head(calls).op \in ops
TopIs(k) == HasBack(sstate) /\ Back(sstate).k = k

\* the calls that serialize a tag, i.e. start with serialize_type_id
TagOps == {"tag", "bytes", "str", "seq", "map"}

\* C11: in frame InList{T, remaining} a value of another TypeID is refused
\* with the heterogeneity error, and the refused call writes nothing and
\* leaves the frame stack, remaining included, as it was.
C11_Heterogeneous ==
    [][(Calling(TagOps) /\ TopIs("InList") /\ Head(calls).t # Back(sstate).type_id)
          => (sres' = "Heterogeneous" /\ npc' = "serfailed"
                /\ cursor' = cursor /\ sstate' = sstate)]_vars

C11_Witness ==
    /\ npc = "serfailed" /\ sres = "Heterogeneous"
    /\ TopIs("InList") /\ Back(sstate).type_id = 1 /\ Back(sstate).size = 1
    /\ log[Len(log)].t = 8
    /\ cursor.buf = <<9, 0, 0, 1, 0, 0, 0, 2, 131>>

\* C12: a key that is not a string (an i8, a byte array, a list, a compound),
\* serialized in frame CompoundBeforeEntry, makes the call return an error.
\* The code writes the TypeID and then reaches unreachable!() in
\* serialize_name.
C12_NonStringKey ==
    [][(Calling({"tag", "bytes", "seq", "map"}) /\ TopIs("CompoundBeforeEntry"))
          => (npc' = "serfailed" /\ sres' \notin {"Ok", "Panic"})]_vars

\* C13: no call of the serializer that meets a frame it does not expect ends
\* in a panic; it returns an error.  The code has unreachable!() and
\* assert_eq!() in these places.
C13_NoPanic ==
    [][Calling(TagOps \cup {"seq_end", "map_end"}) => sres' # "Panic"]_vars

\* C14: serialize_u8 .. serialize_u64, serialize_char, serialize_bool,
\* serialize_unit and the four variant methods return an error in every
\* state, write nothing and leave the frame stack as it was.  In the code the
\* newtype, tuple and struct variant methods are unimplemented!().
C14_Rejected ==
    [][Calling(Unsupported \cup {"serialize_newtype_variant",
                                 "serialize_tuple_variant",
                                 "serialize_struct_variant"})
          => (npc' = "serfailed" /\ sres' = "Unsupported"
                /\ cursor' = cursor /\ sstate' = sstate)]_vars

\* the bytes of its payload that a call writes itself
OwnPayload(c) ==
    IF c.op = "tag" THEN to_be_bytes(c.bits, PayloadSize(c.t))
    ELSE IF c.op = "bytes" THEN <<0, 0, 0, Len(c.s)>> \o c.s
    ELSE IF c.op = "str" THEN <<0, Len(c.s)>> \o c.s
    ELSE <<>>

\* the frame that a call leaves on top of the list's frame
OwnFrame(c) ==
    IF c.op = "seq" THEN <<FirstListItem(c.len)>>
    ELSE IF c.op = "map" THEN <<CompoundBeforeEntry>>
    ELSE <<>>

\* the stack after the call, the list's frame being now InList{t, size}
ListStack(t, size) ==
    pop_back(sstate) \o <<InList(t, size)>> \o OwnFrame(Head(calls))

\* C22: the first element of a list, met in frame FirstListItem{n}, writes
\* its TypeID, then n as a big-endian i32, then its payload, and the frame
\* becomes InList{T, n - 1}; an element met in frame InList{T, remaining}
\* writes its payload alone, without TypeID and without name.
C22_LazyList ==
    [][/\ (Calling(TagOps) /\ TopIs("FirstListItem"))
            => (/\ sres' = "Ok"
                /\ cursor'.buf = cursor.buf \o <<Head(calls).t>>
                                   \o <<0, 0, 0, Back(sstate).size>>
                                   \o OwnPayload(Head(calls))
                /\ sstate' = ListStack(Head(calls).t, Back(sstate).size - 1))
       /\ (Calling(TagOps) /\ TopIs("InList")
             /\ Head(calls).t = Back(sstate).type_id /\ Back(sstate).size # 0)
            => (/\ sres' = "Ok"
                /\ cursor'.buf = cursor.buf \o OwnPayload(Head(calls))
                /\ sstate' = ListStack(Back(sstate).type_id, Back(sstate).size - 1))
      ]_vars

\* a list of two i8 after its second element
C22_Witness ==
    /\ npc = "written" /\ Len(log) = 3 /\ log[3].op = "tag"
    /\ cursor.buf = <<9, 0, 0, 1, 0, 0, 0, 2, 131, 131>>
    /\ sstate = <<InList(1, 0)>>

\* the name that a tag gets in the frame on top: none in a list, the
\* captured key in a compound, the empty name at the root
OwnName ==
    IF ~HasBack(sstate) THEN <<0, 0>>
    ELSE IF Back(sstate).k = "CompoundBeforeEntryValue"
    THEN <<0, Len(Back(sstate).name)>> \o Back(sstate).name
    ELSE <<>>

C24_RemainingCount ==
    \A i \in 1..Len(sstate) : sstate[i].k = "InList" => sstate[i].size >= 0

-----------------------------------------------------------------------------
(* Properties of the NBT codec on particular documents.                    *)

\* the round trip of the empty list at the root, state by state
EmptyListTrace ==
    /\ npc \notin {"serfailed", "failed"}
    /\ (npc = "start" /\ Len(log) = 1) => cursor.buf = <<9, 0, 0>>
    /\ npc \in {"written", "seeked", "visiting", "done"}
          => cursor.buf = <<9, 0, 0, 0, 0, 0, 0, 0>>
    /\ npc = "visiting"
          => (cursor.pos = 8 /\ vis = <<SeqVisitor>> /\ dstate = <<ListBeforeItem(0, 0)>>)
    /\ npc = "done"
          => (cursor.pos = 8 /\ dstate = <<>>
                /\ dres = [res |-> "Ok", val |-> ListOf(<<>>), arg |-> 0])

\* the first next_element call on a list of size 0
FirstOfEmpty ==
    /\ npc = "visiting" /\ Back(vis) = SeqVisitor
    /\ HasBack(dstate) /\ Back(dstate).k = "ListBeforeItem" /\ Back(dstate).size = 0

\* C15: the empty list at the root is 09, the empty name, TypeID 0 and the
\* i32 0, the last five bytes being written by end; it decodes to an empty
\* sequence, and the first next_element of any list of size 0 reports the end
\* of the sequence without moving the reader.
C15_EmptyList ==
    [][/\ doc = ListOf(<<>>) => EmptyListTrace'
       /\ FirstOfEmpty => (/\ cursor' = cursor
                           /\ dstate' = pop_back(dstate)
                           /\ npc' \in {"visiting", "done"}
                           /\ Len(vis') = Len(vis) - 1)]_vars

C15_Witness ==
    /\ doc = ListOf(<<>>) /\ npc = "done"
    /\ dres = [res |-> "Ok", val |-> ListOf(<<>>), arg |-> 0]
    /\ cursor = [buf |-> <<9, 0, 0, 0, 0, 0, 0, 0>>, pos |-> 8]

\* C16: the end of a compound writes the single byte 00 and pops the
\* CompoundBeforeEntry frame of the compound, so that the encoding of every
\* compound ends with one TAG_End; the empty compound at the root is 0A, the
\* empty name, 00.
C16_CompoundEnd ==
    [][/\ NextCall("map_end")
          => (/\ TopIs("CompoundBeforeEntry")
              /\ sres' = "Ok"
              /\ cursor' = write_all(cursor, <<0>>)
              /\ sstate' = pop_back(sstate))
       /\ (doc = MapOf(<<>>) /\ npc' = "written")
          => cursor'.buf = <<10, 0, 0, 0>>]_vars

C16_Witness ==
    /\ doc = MapOf(<<>>) /\ npc = "written" /\ sres = "Ok" /\ sstate = <<>>
    /\ cursor = [buf |-> <<10, 0, 0, 0>>, pos |-> 4]

\* the bytes that the step wrote at the end of the buffer
Written == SubSeq(cursor'.buf, Len(cursor.buf) + 1, Len(cursor'.buf))

\* a name on the wire: u16 length, CESU-8 bytes
NameBytes(name) ==
    LET buf == to_java_cesu8(name)
    IN <<Len(buf) \div 256, Len(buf) % 256>> \o buf

IsPrefix(p, q) == Len(p) <= Len(q) /\ SubSeq(q, 1, Len(p)) = p

CakeBytes ==
    <<10, 0, 0,
      8, 0, 4, 110, 97, 109, 101, 0, 4, 99, 97, 107, 101,
      6, 0, 5, 112, 114, 105, 99, 101, 64, 4, 0, 0, 0, 0, 0, 0,
      0>>

\* C17: the value of a compound entry is written as its TypeID, then the
\* name captured from the key, then the payload, at the end of what was
\* written before; the record { name: "cake", price: 2.5 } encodes to the
\* bytes of the specification and decodes to itself.
C17_EntryOrder ==
    [][/\ (Calling({"tag", "str", "seq", "map"}) /\ TopIs("CompoundBeforeEntryValue")
             /\ sres' = "Ok")
          => (/\ IsPrefix(cursor.buf, cursor'.buf)
              /\ IsPrefix(<<Head(calls).t>> \o NameBytes(Back(sstate).name), Written)
              /\ Head(calls).op = "tag"
                   => Written = <<Head(calls).t>> \o NameBytes(Back(sstate).name)
                                   \o to_be_bytes(Head(calls).bits,
                                                  PayloadSize(Head(calls).t)))
       /\ (doc = CakeDoc /\ npc' \in {"written", "seeked", "visiting", "done"})
          => cursor'.buf = CakeBytes
       /\ (doc = CakeDoc /\ npc' \notin {"start", "written", "seeked", "visiting"})
          => (npc' = "done" /\ dres' = [res |-> "Ok", val |-> CakeDoc, arg |-> 0])]_vars

C17_Witness ==
    /\ doc = CakeDoc /\ npc = "done"
    /\ dres = [res |-> "Ok", val |-> CakeDoc, arg |-> 0]
    /\ cursor = [buf |-> CakeBytes, pos |-> Len(CakeBytes)]

-----------------------------------------------------------------------------
(* bool: coder.rs (direct coder), coder/ser.rs and coder/de.rs (serde).    *)

\* the byte of a bool: `if *self { 0x01u8 } else { 0x00u8 }`
BoolByte(v) == IF v THEN 1 ELSE 0

\* serde coder: Serializer::serialize_bool
serialize_bool(c, v) == write_all(c, <<BoolByte(v)>>)

\* impl Serialize for bool
bool_serialize(im, v, c) ==
    IF im = "direct" THEN write_all(c, <<BoolByte(v)>>)
    ELSE serialize_bool(c, v)

\* direct coder, impl Deserialize for bool: the match on the byte
bool_match(n, c) ==
    IF n = 0 THEN [res |-> "Ok", val |-> FALSE, c |-> c]
    ELSE IF n = 1 THEN [res |-> "Ok", val |-> TRUE, c |-> c]
    ELSE [res |-> "InvalidBooleanValue", val |-> n, c |-> c]

\* serde coder: Deserializer::deserialize_bool, the match on buf[0];
\* de::Error::invalid_value is Error::custom of the formatted message
deserialize_bool_match(n, c) ==
    IF n = 0 THEN [res |-> "Ok", val |-> FALSE, c |-> c]
    ELSE IF n = 1 THEN [res |-> "Ok", val |-> TRUE, c |-> c]
    ELSE [res |-> "Custom", val |-> n, c |-> c]

\* the rest of either decoder once the byte was asked for
bool_deserialize_q(im, rd) ==
    IF ~rd.ok THEN [res |-> "IoError", val |-> 0, c |-> rd.c]
    ELSE IF im = "direct" THEN bool_match(rd.bytes[1], rd.c)
    ELSE deserialize_bool_match(rd.bytes[1], rd.c)

\* impl Deserialize for bool / Deserializer::deserialize_bool
bool_deserialize(im, c) == bool_deserialize_q(im, read_exact(c, 1))

-----------------------------------------------------------------------------
(* The bool harness: a value is written and read back, or a stream of one  *)
(* byte (or none) is read.                                                 *)

BoolStreams == {<<>>} \cup {<<b>> : b \in 0..255}

BoolInit ==
    /\ impl \in {"direct", "serde"}
    /\ vty = "bool"
    /\ vout = NoOut
    /\ \/ /\ vpc = "start"
          /\ vself \in BOOLEAN
          /\ cursor = [buf |-> <<>>, pos |-> 0]
       \/ /\ vpc = "raw"
          /\ vself = FALSE
          /\ cursor \in {[buf |-> s, pos |-> 0] : s \in BoolStreams}
    /\ PositionIdle
    /\ NbtIdle

\* x.serialize(&mut cursor)
BoolSerialize ==
    /\ vpc = "start"
    /\ cursor' = bool_serialize(impl, vself, cursor)
    /\ vpc' = "written"
    /\ UNCHANGED <<impl, vty, vself, vout, posVars, nbtVars>>

\* cursor.set_position(0)
BoolSeek ==
    /\ vpc = "written"
    /\ cursor' = [cursor EXCEPT !.pos = 0]
    /\ vpc' = "seeked"
    /\ UNCHANGED <<impl, vty, vself, vout, posVars, nbtVars>>

\* bool::deserialize(&mut cursor)
BoolDeserialize ==
    /\ vpc \in {"seeked", "raw"}
    /\ LET d == bool_deserialize(impl, cursor)
       IN /\ vout' = [res |-> d.res, val |-> d.val, read |-> d.c.pos]
          /\ cursor' = d.c
    /\ vpc' = IF vpc = "seeked" THEN "done" ELSE "rawdone"
    /\ UNCHANGED <<impl, vty, vself, posVars, nbtVars>>

BoolNext == BoolSerialize \/ BoolSeek \/ BoolDeserialize

SpecBool == BoolInit /\ [][BoolNext]_vars

-----------------------------------------------------------------------------
(* Properties of the bool coder.                                           *)

VDecoded == vpc \in {"done", "rawdone"}

\* what the byte b decodes to
BoolOutcome(b) ==
    IF b = 0 THEN vout.res = "Ok" /\ vout.val = FALSE
    ELSE IF b = 1 THEN vout.res = "Ok" /\ vout.val = TRUE
    ELSE vout.res = "InvalidBooleanValue" /\ vout.val = b

\* C18: in both coders true is written as 01 and false as 00; 00 is read
\* as false, 01 as true, and every other byte fails with
\* InvalidBooleanValue carrying that byte.
C18_BoolBytes ==
    /\ (Encoded /\ vself) => cursor.buf = <<1>>
    /\ (Encoded /\ ~vself) => cursor.buf = <<0>>
    /\ (VDecoded /\ Len(cursor.buf) = 1) => BoolOutcome(cursor.buf[1])

-----------------------------------------------------------------------------
(* String: coder.rs (direct coder), coder/ser.rs and coder/de.rs (serde).  *)
(* A string is the sequence of its code points.                            *)

\* `c as u32`: the 32-bit pattern of a code point
CharBits(ch) == AsU64(ch) \cap lsb(32)

\* direct coder: impl Serialize for u32
u32_serialize(c, n) == write_all(c, to_be_bytes(n, 4))

\* serde coder: Serializer::serialize_u32
serialize_u32(c, v) == write_all(c, to_be_bytes(v, 4))

\* c.serialize(..) of one code point
char_serialize(im, c, n) ==
    IF im = "direct" THEN u32_serialize(c, n) ELSE serialize_u32(c, n)

\* cs.into_iter().map(|c| c.serialize(..)).collect()
RECURSIVE String_write(_, _, _, _)
String_write(im, cs, i, c) ==
    IF i > Len(cs) THEN [res |-> "Ok", c |-> c]
    ELSE String_write(im, cs, i + 1, char_serialize(im, c, CharBits(cs[i])))

\* impl Serialize for String / Serializer::serialize_str
String_serialize(im, cs, c) ==
    IF Len(cs) > I32Max THEN [res |-> "HumongousString", c |-> c]
    ELSE String_write(im, cs, 1,
                      VarInt_serialize(im, "VarInt", CharBits(Len(cs)), c))

\* after read_exact of the four bytes of a u32
u32_deserialize_q(rd) ==
    IF ~rd.ok THEN [res |-> "IoError", val |-> {}, c |-> rd.c]
    ELSE [res |-> "Ok", val |-> from_be_bytes(rd.bytes), c |-> rd.c]

\* impl Deserialize for u32 / Deserializer::deserialize_u32
u32_deserialize(c) == u32_deserialize_q(read_exact(c, 4))

\* a char::from_u32 that only refuses what is above 0x10FFFF
from_u32_lax(n) ==
    IF n \cap (21..31) # {} \/ AsUnsigned(n) > 1114111
    THEN [some |-> FALSE, val |-> 0]
    ELSE [some |-> TRUE, val |-> AsUnsigned(n)]

\* std::char::from_u32: None above 0x10FFFF and for 0xD800..=0xDFFF
from_u32(n) ==
    IF n \cap (21..31) # {} \/ AsUnsigned(n) > 1114111
         \/ (AsUnsigned(n) >= 55296 /\ AsUnsigned(n) <= 57343)
    THEN [some |-> FALSE, val |-> 0]
    ELSE [some |-> TRUE, val |-> AsUnsigned(n)]

\* (0..size).map(|_| u32::deserialize(..).and_then(from_u32 ..)).collect():
\* the first failure ends the collection
RECURSIVE String_read(_, _, _, _)
String_read_q(size, i, acc, rd) ==
    IF rd.res # "Ok" THEN [res |-> rd.res, val |-> <<>>, c |-> rd.c]
    ELSE IF ~from_u32(rd.val).some
         THEN [res |-> "InvalidString", val |-> <<>>, c |-> rd.c]
         ELSE String_read(size, i + 1, Append(acc, from_u32(rd.val).val), rd.c)

String_read(size, i, acc, c) ==
    IF i >= size THEN [res |-> "Ok", val |-> acc, c |-> c]
    ELSE String_read_q(size, i, acc, u32_deserialize(c))

\* a decoder that refuses a size below 0
String_size_q_checked(v) ==
    IF v.res # "Ok" THEN [res |-> v.res, val |-> <<>>, c |-> v.c]
    ELSE IF SignedValue(v.val, 32) < 0
    THEN [res |-> "InvalidString", val |-> <<>>, c |-> v.c]
    ELSE String_read(SignedValue(v.val, 32), 0, <<>>, v.c)

\* let size = VarInt::deserialize(..)?.0
String_size_q(v) ==
    IF v.res # "Ok" THEN [res |-> v.res, val |-> <<>>, c |-> v.c]
    ELSE String_read(SignedValue(v.val, 32), 0, <<>>, v.c)

\* impl Deserialize for String / Deserializer::deserialize_string
String_deserialize(im, c) == String_size_q(VarInt_deserialize(im, "VarInt", c))

-----------------------------------------------------------------------------
(* The String harness: a string is written and read back, or a stream made *)
(* of a length prefix and 32-bit words is read.                            *)

\* the longest string and the most words of a stream
MaxChars == 2

\* 'A', U+00E9, the scalar values around the surrogates, the last one
CharSample == {65, 233, 55295, 57344, 1114111}

StringInputs == UNION {[1..n -> CharSample] : n \in 0..MaxChars}

\* 'A', U+D7FF, U+10FFFF, then 0xD800, 0xDFFF, 0x110000, 0x01000041, 0xFFFFFFFF
WordSample ==
    {<<0, 0, 0, 65>>, <<0, 0, 215, 255>>, <<0, 16, 255, 255>>,
     <<0, 0, 216, 0>>, <<0, 0, 223, 255>>, <<0, 17, 0, 0>>,
     <<1, 0, 0, 65>>, <<255, 255, 255, 255>>}

\* the VarInt of 0, 1, 2, -1 and i32::MIN
PrefixSample ==
    {<<0>>, <<1>>, <<2>>, <<255, 255, 255, 255, 15>>, <<128, 128, 128, 128, 8>>}

RECURSIVE Flatten(_)
Flatten(ws) == IF ws = <<>> THEN <<>> ELSE Head(ws) \o Flatten(Tail(ws))

StringStreams ==
    {p \o Flatten(ws) \o t :
        p \in PrefixSample,
        ws \in UNION {[1..n -> WordSample] : n \in 0..MaxChars},
        t \in {<<>>, <<0>>}}

StringInit ==
    /\ impl \in {"direct", "serde"}
    /\ vty = "String"
    /\ vout = NoOut
    /\ \/ /\ vpc = "start"
          /\ vself \in StringInputs
          /\ cursor = [buf |-> <<>>, pos |-> 0]
       \/ /\ vpc = "raw"
          /\ vself = <<>>
          /\ cursor \in {[buf |-> s, pos |-> 0] : s \in StringStreams}
    /\ PositionIdle
    /\ NbtIdle

\* x.serialize(&mut cursor).unwrap()
StringSerialize ==
    /\ vpc = "start"
    /\ LET r == String_serialize(impl, vself, cursor)
       IN /\ cursor' = r.c
          /\ vpc' = IF r.res = "Ok" THEN "written" ELSE "failed"
          /\ vout' = [vout EXCEPT !.res = IF r.res = "Ok" THEN @ ELSE r.res]
    /\ UNCHANGED <<impl, vty, vself, posVars, nbtVars>>

\* cursor.seek(SeekFrom::Start(0))
StringSeek ==
    /\ vpc = "written"
    /\ cursor' = [cursor EXCEPT !.pos = 0]
    /\ vpc' = "seeked"
    /\ UNCHANGED <<impl, vty, vself, vout, posVars, nbtVars>>

\* Deserialize::deserialize(&mut cursor)
StringDeserialize ==
    /\ vpc \in {"seeked", "raw"}
    /\ LET d == String_deserialize(impl, cursor)
       IN /\ vout' = [res |-> d.res, val |-> d.val, read |-> d.c.pos]
          /\ cursor' = d.c
    /\ vpc' = IF vpc = "seeked" THEN "done" ELSE "rawdone"
    /\ UNCHANGED <<impl, vty, vself, posVars, nbtVars>>

StringNext == StringSerialize \/ StringSeek \/ StringDeserialize

SpecString == StringInit /\ [][StringNext]_vars

-----------------------------------------------------------------------------
(* Properties of the String coder.                                         *)

\* the four big-endian bytes of a code point
BE32(ch) == <<0, ch \div 65536, (ch \div 256) % 256, ch % 256>>

\* the i-th 32-bit word after a one-byte prefix
WordAt(buf, i) == SubSeq(buf, 4 * i - 2, 4 * i + 1)

\* the word is a Unicode scalar value
ScalarWord(w) ==
    /\ w[1] = 0 /\ w[2] <= 16
    /\ ~(w[2] = 0 /\ w[3] >= 216 /\ w[3] <= 223)

\* the stream has a one-byte prefix n and its k-th word, k <= n, is complete
\* and is the first one that is not a scalar value
FirstBadWord(buf, k) ==
    /\ buf[1] < 128 /\ k <= buf[1] /\ Len(buf) >= 1 + 4 * k
    /\ ~ScalarWord(WordAt(buf, k))
    /\ \A j \in 1..(k - 1) : ScalarWord(WordAt(buf, j))

\* C19: a string is written as the VarInt of its number of code points and
\* then each code point as a big-endian u32, in order ("A" is 01 00 00 00 41);
\* reading that back gives the same string; a stream in which a word that is
\* not a Unicode scalar value is reached fails with InvalidString.
C19_StringCodec ==
    /\ Encoded =>
          cursor.buf = <<Len(vself)>> \o Flatten([i \in 1..Len(vself) |-> BE32(vself[i])])
    /\ (Encoded /\ vself = <<65>>) => cursor.buf = <<1, 0, 0, 0, 65>>
    /\ vpc = "done" => (vout.res = "Ok" /\ vout.val = vself)
    /\ vpc = "rawdone" =>
          \A k \in 1..MaxChars + 1 :
              FirstBadWord(cursor.buf, k) => vout.res = "InvalidString"

C19_Witness ==
    /\ vpc = "done" /\ vself = <<65>> /\ cursor.buf = <<1, 0, 0, 0, 65>>
    /\ vout.res = "Ok" /\ vout.val = <<65>>

-----------------------------------------------------------------------------
(* The NBT stream harness: the deserializer, driven by the value model,    *)
(* reads a stream that no serializer wrote.                                *)

\* the most bytes that follow the length in a stream
MaxTail == 2

\* -1, i32::MIN, 0, 1, 2 as big-endian i32
LenSample ==
    {<<255, 255, 255, 255>>, <<128, 0, 0, 0>>, <<0, 0, 0, 0>>,
     <<0, 0, 0, 1>>, <<0, 0, 0, 2>>}

TailSample == {0, 1, 255}

Tails == UNION {[1..n -> TailSample] : n \in 0..MaxTail}

\* the element types of the lists: TAG_End, TAG_Byte, TAG_Byte_Array, TAG_List,
\* TAG_Compound and the unknown 11
ElemSample == {0, 1, 7, 9, 10, 11}

\* a byte array or a list at the root, as the item of a list of one, and as
\* the value of the entry "a" of a compound; the root has the empty name
NbtStreams ==
    {h \o n \o t :
        h \in {<<7, 0, 0>>, <<9, 0, 0, 7, 0, 0, 0, 1>>, <<10, 0, 0, 7, 0, 1, 97>>,
                <<1, 0, 1, 97>>, <<10, 0, 0, 1, 0, 1, 97>>,
                <<0, 0, 0>>, <<11, 0, 0>>, <<255, 0, 1, 97>>, <<10, 0, 0, 11, 0, 1, 97>>}
                 \cup {p \o <<e>> : p \in {<<9, 0, 0>>, <<9, 0, 0, 9, 0, 0, 0, 1>>,
                                           <<10, 0, 0, 9, 0, 1, 97>>},
                                    e \in ElemSample},
        n \in LenSample, t \in Tails}

NbtStreamInit ==
    /\ impl = "direct"
    /\ npc = "seeked"
    /\ doc = NoVal /\ calls = <<>> /\ log = <<>>
    /\ cursor \in {[buf |-> s, pos |-> 0] : s \in NbtStreams}
    /\ sstate = <<>> /\ sres = "none"
    /\ dstate = <<>> /\ vis = <<>> /\ dres = NoDres
    /\ VarIntIdle
    /\ PositionIdle

NbtStreamNext ==
    NbtDeserializeAny \/ NbtNextElement \/ NbtNextKey \/ NbtNextValue

SpecNbtStream == NbtStreamInit /\ [][NbtStreamNext]_vars

-----------------------------------------------------------------------------
(* Properties of the NBT deserializer on arbitrary streams.                *)

\* the next call is deserialize_any at the root and the stream holds a
\* TypeID and a name
AtRoot ==
    /\ npc = "seeked" /\ dstate = <<>>
    /\ Len(cursor.buf) >= cursor.pos + 3
    /\ cursor.buf[cursor.pos + 2] < 128
    /\ Len(cursor.buf) >= cursor.pos + 3 + 256 * cursor.buf[cursor.pos + 2]
                             + cursor.buf[cursor.pos + 3]
    /\ IsPlainAscii(SubSeq(cursor.buf, cursor.pos + 4,
                           cursor.pos + 3 + 256 * cursor.buf[cursor.pos + 2]
                             + cursor.buf[cursor.pos + 3]))

\* the next call is next_element on a list with items left, or next_value
AtItem ==
    /\ npc = "visiting" /\ HasBack(dstate)
    /\ \/ /\ Back(vis).kind = "seq" /\ Back(dstate).k = "ListBeforeItem"
          /\ Back(dstate).size > 0
       \/ /\ Back(vis).kind = "map" /\ Back(vis).haskey
          /\ Back(dstate).k = "CompoundBeforeEntryPayload"

\* the TypeID of the tag that the next call decodes
NextTypeId ==
    IF npc = "seeked" THEN cursor.buf[cursor.pos + 1] ELSE Back(dstate).type_id

\* where the i32 length of that byte array or list starts
LengthOffset ==
    (IF npc = "seeked"
     THEN cursor.pos + 3 + 256 * cursor.buf[cursor.pos + 2] + cursor.buf[cursor.pos + 3]
     ELSE cursor.pos)
      + (IF NextTypeId = 9 THEN 1 ELSE 0)

\* the next call decodes a byte array or a list whose length is negative
NegativeLength ==
    /\ AtRoot \/ AtItem
    /\ NextTypeId \in {7, 9}
    /\ Len(cursor.buf) >= LengthOffset + 4
    /\ cursor.buf[LengthOffset + 1] >= 128

\* C20: a byte array (TypeID 7) or a list (TypeID 9) whose i32 length is
\* negative makes the call fail with the error of parse_usize; the stack gets
\* no frame, the reader stops right after the four bytes of the length, and
\* the visitor receives nothing.
C20_NegativeLength ==
    [][NegativeLength
         => (/\ npc' = "failed" /\ dres'.res = "InvalidLength"
             /\ Len(dstate') <= Len(dstate)
             /\ \A i \in 1..Len(dstate') : dstate'[i].size >= 0
             /\ cursor'.pos = LengthOffset + 4
             /\ vis' = vis)]_vars

\* the item of a list of one is a list of byte arrays whose length is -1
C20_Witness ==
    /\ npc = "failed" /\ dres.res = "InvalidLength"
    /\ Len(cursor.buf) >= 13
    /\ SubSeq(cursor.buf, 1, 13) = <<9, 0, 0, 9, 0, 0, 0, 1, 7, 255, 255, 255, 255>>
    /\ cursor.pos = 13
    /\ Len(vis) = 1 /\ vis[1].acc = <<>>
    /\ dstate = <<ListBeforeItem(0, 9)>>

\* the next call dispatches on a TypeID that is no tag
UnknownTypeId ==
    /\ AtRoot \/ AtItem
    /\ NextTypeId \notin 1..10

\* where the payload of the tag that the next call decodes starts
PayloadOffset ==
    IF npc = "seeked"
    THEN cursor.pos + 3 + 256 * cursor.buf[cursor.pos + 2] + cursor.buf[cursor.pos + 3]
    ELSE cursor.pos

LeafNext ==
    /\ AtRoot \/ AtItem
    /\ NextTypeId \in 1..6
    /\ Len(cursor.buf) >= PayloadOffset + PayloadSize(NextTypeId)

\* the value of that tag
LeafRead ==
    Leaf(NextTypeId,
         from_be_bytes(SubSeq(cursor.buf, PayloadOffset + 1,
                              PayloadOffset + PayloadSize(NextTypeId))))

\* C25: at the root deserialize_any reads the TypeID byte, reads the name
\* and drops it, and decodes the payload of that TypeID; with a frame on the
\* stack it reads no name: the payload starts where the reader stands.  The
\* element of a list is decoded by the TypeID of the list's frame, which
\* stays on the stack; the value of an entry by the TypeID of its frame.
C25_DeserializeAny ==
    [][/\ (LeafNext /\ AtRoot)
            => (/\ npc' = "done" /\ dres'.res = "Ok" /\ dres'.val = LeafRead
                /\ cursor'.pos = PayloadOffset + PayloadSize(NextTypeId)
                /\ dstate' = <<>>)
       /\ (LeafNext /\ AtItem)
            => (/\ npc' = "visiting"
                /\ cursor'.pos = cursor.pos + PayloadSize(NextTypeId)
                /\ dstate' = pop_back(dstate)
                      \o <<IF Back(dstate).k = "ListBeforeItem"
                           THEN ListBeforeItem(Back(dstate).size - 1, NextTypeId)
                           ELSE DeCompoundBeforeEntry>>)
       /\ (LeafNext /\ AtItem /\ Back(vis).kind = "seq")
            => Back(vis').acc = Append(Back(vis).acc, LeafRead)
       /\ ((AtRoot \/ AtItem) /\ NextTypeId = 10)
            => (/\ npc' = "visiting" /\ cursor'.pos = PayloadOffset
                /\ Len(dstate') = Len(dstate) + 1
                /\ Back(dstate') = DeCompoundBeforeEntry)
      ]_vars

\* the byte FF named "a" at the root
C25_Witness ==
    /\ npc = "done" /\ dres.res = "Ok" /\ dres.val = Leaf(1, AllOnes(8))
    /\ Len(cursor.buf) >= 5
    /\ SubSeq(cursor.buf, 1, 5) = <<1, 0, 1, 97, 255>>
    /\ cursor.pos = 5 /\ dstate = <<>>

-----------------------------------------------------------------------------
(* Properties of the NBT deserializer on the documents of the round trip.  *)

\* the next call is next_key in frame CompoundBeforeEntry, a byte is left
KeyCall ==
    /\ npc = "visiting" /\ Back(vis).kind = "map" /\ ~Back(vis).haskey
    /\ HasBack(dstate) /\ Back(dstate).k = "CompoundBeforeEntry"
    /\ Len(cursor.buf) >= cursor.pos + 1

\* the length of the name after the TypeID byte, below 32768
NameLength == 256 * cursor.buf[cursor.pos + 2] + cursor.buf[cursor.pos + 3]

\* ... and the TypeID is followed by a whole name
NamedEntry ==
    /\ KeyCall /\ cursor.buf[cursor.pos + 1] # 0
    /\ Len(cursor.buf) >= cursor.pos + 3
    /\ cursor.buf[cursor.pos + 2] < 128
    /\ Len(cursor.buf) >= cursor.pos + 3 + NameLength

\* the next call is next_value in frame CompoundBeforeEntryPayload
ValueCall ==
    /\ npc = "visiting" /\ Back(vis).kind = "map" /\ Back(vis).haskey
    /\ HasBack(dstate) /\ Back(dstate).k = "CompoundBeforeEntryPayload"

\* the value that arrived for the key is of TypeID t, or the visitor of a
\* list (9) or a compound (10) was started
DecodedAs(t) ==
    IF Len(vis') > Len(vis)
    THEN Back(vis').kind = (IF t = 9 THEN "seq" ELSE "map") /\ t \in {9, 10}
    ELSE \E j \in 1..Len(Back(vis').acc) :
            /\ Back(vis').acc[j].k = Back(vis).key
            /\ Back(vis').acc[j].v.t = t

\* C26: next_key in frame CompoundBeforeEntry reads one TypeID byte.  On 0
\* it reports the end and the compound's frame is gone.  Otherwise it reads
\* the name, which is the key, and the top frame becomes
\* CompoundBeforeEntryPayload{t}; next_value then decodes a payload of that
\* TypeID t and the frame of the compound is CompoundBeforeEntry again.
C26_CompoundEntries ==
    [][/\ (KeyCall /\ cursor.buf[cursor.pos + 1] = 0)
            => (/\ cursor'.pos = cursor.pos + 1
                /\ dstate' = pop_back(dstate)
                /\ Len(vis') = Len(vis) - 1)
       /\ NamedEntry
            => (/\ cursor'.pos = cursor.pos + 3 + NameLength
                /\ Len(vis') = Len(vis) /\ Back(vis').haskey
                /\ to_java_cesu8(Back(vis').key)
                      = SubSeq(cursor.buf, cursor.pos + 4, cursor.pos + 3 + NameLength)
                /\ dstate' = pop_back(dstate)
                      \o <<CompoundBeforeEntryPayload(cursor.buf[cursor.pos + 1])>>)
       /\ (ValueCall /\ npc' # "failed")
            => (/\ Len(dstate') >= Len(dstate)
                /\ dstate'[Len(dstate)] = DeCompoundBeforeEntry
                /\ SubSeq(dstate', 1, Len(dstate) - 1) = pop_back(dstate)
                /\ DecodedAs(Back(dstate).type_id))
       /\ (ValueCall /\ Back(dstate).type_id \in 1..6)
            => (/\ npc' = "visiting"
                /\ cursor'.pos = cursor.pos + PayloadSize(Back(dstate).type_id)
                /\ dstate' = pop_back(dstate) \o <<DeCompoundBeforeEntry>>)
      ]_vars

\* the compound of test_struct after its last entry: the TAG_End is next
C26_Witness ==
    /\ npc = "visiting" /\ doc = CakeDoc
    /\ cursor.pos = 32 /\ cursor.buf[33] = 0
    /\ dstate = <<DeCompoundBeforeEntry>>
    /\ Len(vis) = 1 /\ Len(vis[1].acc) = 2 /\ ~vis[1].haskey

\* the next call is next_element in frame ListBeforeItem
ElementCall ==
    /\ npc = "visiting" /\ Back(vis).kind = "seq"
    /\ HasBack(dstate) /\ Back(dstate).k = "ListBeforeItem"

\* the element that arrived is of TypeID t, or the visitor of a list (9) or
\* a compound (10) was started
ElementAs(t) ==
    IF Len(vis') > Len(vis)
    THEN Back(vis').kind = (IF t = 9 THEN "seq" ELSE "map") /\ t \in {9, 10}
    ELSE /\ Len(Back(vis').acc) = Len(Back(vis).acc) + 1
         /\ Back(vis').acc[Len(Back(vis').acc)].t = t

\* the document is a list at the root with the empty name: its header is
\* 09 00 00, t and the size, below 256
RootList == Len(cursor.buf) >= 8 /\ SubSeq(cursor.buf, 1, 3) = <<9, 0, 0>>

\* C27: a list whose header holds the TypeID t and the size n gives n
\* elements to n calls of next_element, each decoded as TypeID t and each
\* taking one from the size of the frame ListBeforeItem; the call that finds
\* the size 0 reads nothing, reports the end and removes the frame.
C27_ListElements ==
    [][/\ (ElementCall /\ Back(dstate).size = 0)
            => (/\ cursor' = cursor
                /\ dstate' = pop_back(dstate)
                /\ Len(vis') = Len(vis) - 1)
       /\ (ElementCall /\ Back(dstate).size > 0 /\ npc' # "failed")
            => (/\ Len(dstate') >= Len(dstate)
                /\ dstate'[Len(dstate)]
                      = ListBeforeItem(Back(dstate).size - 1, Back(dstate).type_id)
                /\ SubSeq(dstate', 1, Len(dstate) - 1) = pop_back(dstate)
                /\ ElementAs(Back(dstate).type_id))
       /\ (npc = "seeked" /\ RootList /\ npc' # "failed")
            => (/\ dstate' = <<ListBeforeItem(cursor.buf[8], cursor.buf[4])>>
                /\ vis' = <<SeqVisitor>>)
       /\ (npc' = "done" /\ RootList)
            => (/\ dres'.val.t = 9 /\ Len(dres'.val.items) = cursor.buf[8]
                /\ \A j \in 1..Len(dres'.val.items) :
                      dres'.val.items[j].t = cursor.buf[4]
                /\ dstate' = <<>>)
      ]_vars

\* a list of two compounds is read to its end
C27_Witness ==
    /\ npc = "done" /\ RootList /\ cursor.buf[4] = 10 /\ cursor.buf[8] = 2
    /\ dres.res = "Ok" /\ Len(dres.val.items) = 2
    /\ dstate = <<>> /\ cursor.pos = Len(cursor.buf)

\* C29: once a document was decoded with success, every list element and
\* every entry having been asked for, the frame stack is empty, no visitor
\* is open and the reader stands right after the last byte of the document:
\* all of its bytes were read and none beyond.
C29_ExactConsumption ==
    npc = "done"
        => (/\ dres.res = "Ok"
            /\ dstate = <<>> /\ vis = <<>>
            /\ cursor.pos = Len(cursor.buf))

\* a list of two lists was read
C29_Witness ==
    /\ npc = "done" /\ dres.res = "Ok"
    /\ doc.t = 9 /\ Len(doc.items) = 2 /\ doc.items[2].t = 9
    /\ dstate = <<>> /\ cursor.pos = Len(cursor.buf) /\ cursor.pos > 8

\* the stream starts with the VarInt of a length below 0
NegativePrefix ==
    /\ vpc = "rawdone" /\ vty = "String"
    /\ Len(cursor.buf) >= 5
    /\ SubSeq(cursor.buf, 1, 5)
         \in {<<255, 255, 255, 255, 15>>, <<128, 128, 128, 128, 8>>}

\* C35: a string whose length prefix is negative is decoded with Ok as the
\* empty string, by both decoders, and the decoder reads the prefix and
\* nothing after it.
C35_NegativeSize ==
    NegativePrefix
        => (vout.res = "Ok" /\ vout.val = <<>> /\ vout.read = 5
              /\ cursor.pos = 5)

\* the prefix -1 before a word that is not read, by the serde decoder
C35_Witness ==
    /\ NegativePrefix /\ impl = "serde"
    /\ cursor.buf = <<255, 255, 255, 255, 15, 0, 0, 0, 65>>
    /\ vout.res = "Ok" /\ vout.val = <<>> /\ cursor.pos = 5

-----------------------------------------------------------------------------
(* The frame stack of the NBT serializer along a well-formed value.        *)

\* the calls of the value's Serialize impl that have returned
Done == SubSeq(Events(doc), 1, Len(Events(doc)) - Len(calls))

\* the stack a finished value of TypeID t leaves where it started on st: a
\* pending name is used up; with lists set, the frame of the list the value
\* is an element of counts it
Settle(st, t, lists) ==
    IF st = <<>> THEN st
    ELSE IF Back(st).k = "CompoundBeforeEntryValue"
    THEN push_back(pop_back(st), CompoundBeforeEntry)
    ELSE IF lists /\ Back(st).k \in {"FirstListItem", "InList"}
    THEN push_back(pop_back(st), InList(t, Back(st).size - 1))
    ELSE st

\* the stack one more call leaves: a key is captured, a leaf is a finished
\* value, an open pushes its frame on the stack its value will leave, a
\* close pops it
Step(st, ev, lists) ==
    IF ev.op = "str" /\ st # <<>> /\ Back(st) = CompoundBeforeEntry
    THEN push_back(pop_back(st), CompoundBeforeEntryValue(ev.s))
    ELSE IF ev.op \in {"tag", "str"} THEN Settle(st, ev.t, lists)
    ELSE IF ev.op = "seq"
    THEN push_back(Settle(st, 9, lists), FirstListItem(ev.len))
    ELSE IF ev.op = "map"
    THEN push_back(Settle(st, 10, lists), CompoundBeforeEntry)
    ELSE pop_back(st)

RECURSIVE StackAfter(_, _, _)
StackAfter(evs, n, lists) ==
    IF n = 0 THEN <<>>
    ELSE Step(StackAfter(evs, n - 1, lists), evs[n], lists)

\* the containers that are open after the calls evs
RECURSIVE Open(_, _)
Open(evs, n) ==
    IF n = 0 THEN 0
    ELSE Open(evs, n - 1)
           + (IF evs[n].op \in {"seq", "map"} THEN 1
              ELSE IF evs[n].op \in {"seq_end", "map_end"} THEN -1 ELSE 0)

\* C31 as stated: while the value is serialized with Ok, a finished value
\* leaves the stack it started on, but for a pending name that has become
\* CompoundBeforeEntry; the stack is empty after the root document and not
\* empty while a container is open.
C31_StackBalance ==
    sres = "Ok"
        => (/\ sstate = StackAfter(Done, Len(Done), FALSE)
            /\ (calls = <<>> => sstate = <<>>)
            /\ (Open(Done, Len(Done)) > 0 => sstate # <<>>))

\* C31, amended: a finished value leaves the stack it started on, but for a
\* pending name that has become CompoundBeforeEntry and for the frame of the
\* list it is an element of, which has become InList with the value's TypeID
\* and one element less to come; the stack is empty after the root document
\* and not empty while a container is open.
C31_StackBalanceLists ==
    sres = "Ok"
        => (/\ sstate = StackAfter(Done, Len(Done), TRUE)
            /\ (calls = <<>> => sstate = <<>>)
            /\ (Open(Done, Len(Done)) > 0 => sstate # <<>>))

\* a list in a compound in a list has been closed
C31_Witness ==
    /\ sres = "Ok" /\ Len(log) > 0 /\ log[Len(log)].op = "seq_end"
    /\ Len(sstate) = 2
    /\ sstate[1].k = "InList" /\ sstate[2] = CompoundBeforeEntry

\* the call that opened the innermost container still open after lg
OpenedAt(lg) ==
    LET S == {i \in 1..Len(lg) : /\ lg[i].op \in {"seq", "map"}
                                 /\ Open(lg, i) = Open(lg, Len(lg))}
    IN IF S = {} THEN 0 ELSE CHOOSE i \in S : \A j \in S : j <= i

\* the calls that started an element (or an entry's value) of that container
ElementsOf(lg) ==
    {j \in (OpenedAt(lg) + 1)..Len(lg) :
        /\ lg[j].op \in TagOps
        /\ Open(lg, j - 1) = Open(lg, Len(lg))}

\* where the writer stood when the first of them was made
HeaderAt(lg) ==
    lg[(CHOOSE j \in ElementsOf(lg) : \A i \in ElementsOf(lg) : j <= i) - 1].pos

\* the i32 of a list's header, the header starting after the first at bytes
HeaderSize(buf, at) ==
    SignedValue(from_be_bytes(SubSeq(buf, at + 2, at + 5)), 32)

\* C32: the close of a list returns Ok only in frame InList with nothing
\* left or FirstListItem of size 0, and then the size in the header of the
\* list is the number of elements written since its open: the header that
\* the first element wrote holds their number, and a list that got no
\* element gets from the close the header of TypeID 0 and size 0.
C32_HeaderCount ==
    [][(Calling({"seq_end"}) /\ sres' = "Ok")
         => (/\ HasBack(sstate)
             /\ Back(sstate).k \in {"InList", "FirstListItem"}
             /\ Back(sstate).size = 0
             /\ OpenedAt(log) > 0 /\ log[OpenedAt(log)].op = "seq"
             /\ IF ElementsOf(log) = {}
                THEN /\ Back(sstate).k = "FirstListItem"
                     /\ cursor'.buf = cursor.buf \o <<0, 0, 0, 0, 0>>
                ELSE /\ Back(sstate).k = "InList"
                     /\ cursor' = cursor
                     /\ Len(cursor.buf) >= HeaderAt(log) + 5
                     /\ HeaderSize(cursor.buf, HeaderAt(log))
                          = Cardinality(ElementsOf(log)))
      ]_vars

\* a list of two elements has been closed
C32_Witness ==
    /\ sres = "Ok" /\ Len(log) = 4 /\ log[4].op = "seq_end"
    /\ log[1].op = "seq" /\ log[1].len = 2
    /\ log[2].op = "tag" /\ log[3].op = "tag"
    /\ cursor.buf = <<9, 0, 0, 1, 0, 0, 0, 2, 131, 131>>
    /\ sstate = <<>>

\* C33: serialize_none returns Ok, writes nothing and leaves the stack as
\* it is, in every state.  So after a None as the value of an entry the top
\* is still CompoundBeforeEntryValue with the captured name, and the string
\* that follows is written as a TAG_String under that name and not captured
\* as a key; and a None in a list takes nothing from the remaining count.
C33_NoneIsNothing ==
    [][/\ Calling({"none"})
            => (sres' = "Ok" /\ cursor' = cursor /\ sstate' = sstate)
       /\ (Calling({"str"}) /\ TopIs("CompoundBeforeEntryValue")
             /\ log[Len(log)].op = "none")
            => (/\ sres' = "Ok"
                /\ cursor'.buf = cursor.buf \o <<8>> \o OwnName
                                   \o OwnPayload(Head(calls))
                /\ sstate' = pop_back(sstate) \o <<CompoundBeforeEntry>>)
      ]_vars

\* the entry "a" got None as its value and the next key as its TAG_String
C33_Witness ==
    /\ sres = "Ok" /\ Len(log) = 4
    /\ log[1].op = "map" /\ log[2].op = "str"
    /\ log[3].op = "none" /\ log[4].op = "str"
    /\ cursor.buf = <<10, 0, 0, 8, 0, 1, 97, 0, 1, 97>>
    /\ sstate = <<CompoundBeforeEntry>>

-----------------------------------------------------------------------------
(* Fixed-width integers and floats of the MC coders: coder_int_impl! and   *)
(* coder_float_impl! in coder.rs, ser_int!/ser_float! in coder/ser.rs,     *)
(* de_int!/de_float! in coder/de.rs.  A value is its bit pattern: to_bits  *)
(* and from_bits of a float move the pattern as it is.                     *)

\* the types that both coders have
IntTypes ==
    {"i8", "u8", "i16", "u16", "i32", "u32", "i64", "u64", "u128", "f32", "f64"}

\* size_of::<$ty>()
IntSize(ty) ==
    IF ty \in {"i8", "u8"} THEN 1
    ELSE IF ty \in {"i16", "u16"} THEN 2
    ELSE IF ty \in {"i32", "u32", "f32"} THEN 4
    ELSE IF ty \in {"i64", "u64", "f64"} THEN 8
    ELSE 16

\* a ser_int! that writes the least significant byte first
ser_int_le(c, v, size) == write_all(c, to_le_bytes(v, size))

\* serde coder: ser_int! (ser_float! goes to it by to_bits)
ser_int(c, v, size) == write_all(c, to_be_bytes(v, size))

\* impl Serialize for the integers and floats
int_serialize(im, size, v, c) ==
    IF im = "direct" THEN write_all(c, to_be_bytes(v, size))
    ELSE ser_int(c, v, size)

\* serde coder: de_int! / de_float!
de_int(c, size) ==
    LET rd == read_exact(c, size)
    IN IF ~rd.ok THEN [res |-> "IoError", val |-> {}, c |-> rd.c]
       ELSE [res |-> "Ok", val |-> from_be_bytes(rd.bytes), c |-> rd.c]

\* impl Deserialize for the integers and floats
int_deserialize(im, size, c) ==
    IF im = "direct"
    THEN LET rd == read_exact(c, size)
         IN IF ~rd.ok THEN [res |-> "IoError", val |-> {}, c |-> rd.c]
            ELSE [res |-> "Ok", val |-> from_be_bytes(rd.bytes), c |-> rd.c]
    ELSE de_int(c, size)

\* 0, -1 (or the maximum), 1, the byte 0x80 and a pattern that tells the
\* bytes apart
IntInputs(ty) ==
    {{}, AllOnes(8 * IntSize(ty)), {0}, {7}, Asym(8 * IntSize(ty))}

\* the streams of the size of the type, one byte less and one byte more
IntStreams(ty) ==
    {[j \in 1..n |-> b] : n \in {IntSize(ty) - 1, IntSize(ty), IntSize(ty) + 1},
                          b \in {0, 255}}
        \cup {[j \in 1..IntSize(ty) |-> j], [j \in 1..IntSize(ty) |-> 128 + j]}

IntInit ==
    /\ impl \in {"direct", "serde"}
    /\ vty \in IntTypes
    /\ vout = NoOut
    /\ \/ /\ vpc = "start"
          /\ vself \in IntInputs(vty)
          /\ cursor = [buf |-> <<>>, pos |-> 0]
       \/ /\ vpc = "raw"
          /\ vself = {}
          /\ cursor \in {[buf |-> s, pos |-> 0] : s \in IntStreams(vty)}
    /\ PositionIdle
    /\ NbtIdle

\* x.serialize(&mut cursor)
IntSerialize ==
    /\ vpc = "start"
    /\ cursor' = int_serialize(impl, IntSize(vty), vself, cursor)
    /\ vpc' = "written"
    /\ UNCHANGED <<impl, vty, vself, vout, posVars, nbtVars>>

\* cursor.seek(SeekFrom::Start(0))
IntSeek ==
    /\ vpc = "written"
    /\ cursor' = [cursor EXCEPT !.pos = 0]
    /\ vpc' = "seeked"
    /\ UNCHANGED <<impl, vty, vself, vout, posVars, nbtVars>>

\* Deserialize::deserialize(&mut cursor)
IntDeserialize ==
    /\ vpc \in {"seeked", "raw"}
    /\ LET d == int_deserialize(impl, IntSize(vty), cursor)
       IN /\ vout' = [res |-> d.res, val |-> d.val, read |-> d.c.pos]
          /\ cursor' = d.c
    /\ vpc' = IF vpc = "seeked" THEN "done" ELSE "rawdone"
    /\ UNCHANGED <<impl, vty, vself, posVars, nbtVars>>

IntNext == IntSerialize \/ IntSeek \/ IntDeserialize

-----------------------------------------------------------------------------
(* The harnesses of the MC coders together: every type of coder.rs, by     *)
(* either coder.                                                           *)

CodecInit ==
    VarIntInit \/ BoolInit \/ StringInit \/ IntInit \/ PositionInit

CodecNext ==
    \/ (vty \in VarTypes /\ VarIntNext)
    \/ (vty = "bool" /\ BoolNext)
    \/ (vty = "String" /\ StringNext)
    \/ (vty \in IntTypes /\ IntNext)
    \/ PositionNext

SpecCodecs == CodecInit /\ [][CodecNext]_vars

-----------------------------------------------------------------------------
(* The two MC coders side by side.                                         *)

\* the other coder
Other(im) == IF im = "direct" THEN "serde" ELSE "direct"

\* an empty writer, and the reader back at the start of its bytes
Fresh == [buf |-> <<>>, pos |-> 0]
Rewound == [cursor EXCEPT !.pos = 0]

\* where this decoder and the other one both succeed, the value and the
\* bytes read are the same
Agree(out, d) ==
    (out.res = "Ok" /\ d.res = "Ok") => (out.val = d.val /\ out.read = d.c.pos)

-----------------------------------------------------------------------------
(* The sequence access of the serde coder: coder/de.rs.  A visitor of a    *)
(* sequence of u8 asks for the next element until it is told the end or    *)
(* gets an error.                                                          *)

\* Deserializer::deserialize_u8
deserialize_u8(c) ==
    LET rd == read_exact(c, 1)
    IN IF ~rd.ok THEN [res |-> "IoError", val |-> 0, c |-> rd.c]
       ELSE [res |-> "Ok", val |-> rd.bytes[1], c |-> rd.c]

\* .map(Some) on the result of seed.deserialize
map_Some(r) == IF r.res = "Ok" THEN [r EXCEPT !.res = "Some"] ELSE r

\* SeqAccess::next_element_seed of deserialize_seq
SeqAccess_next_element_seed(c) == map_Some(deserialize_u8(c))

\* the longest stream of the harness
MaxStream == 4

SeqStreams == UNION {[1..n -> {0, 1, 255}] : n \in 0..MaxStream}

SeqInit ==
    /\ impl = "serde"
    /\ vty = "seq"
    /\ vpc = "raw"
    /\ vself = <<>>
    /\ vout = NoOut
    /\ cursor \in {[buf |-> s, pos |-> 0] : s \in SeqStreams}
    /\ PositionIdle
    /\ NbtIdle

\* deserializer.deserialize_seq(visitor): visitor.visit_seq(SeqAccess(..))
SeqDeserialize ==
    /\ vpc = "raw"
    /\ vpc' = "visiting"
    /\ UNCHANGED <<impl, cursor, vty, vself, vout, posVars, nbtVars>>

\* seq.next_element()? in the visitor's loop: Some(x) is kept in vself and
\* the loop goes on, None ends the sequence, Err ends the visit
SeqNextElement ==
    /\ vpc = "visiting"
    /\ LET r == SeqAccess_next_element_seed(cursor)
       IN /\ cursor' = r.c
          /\ vout' = [NoOut EXCEPT !.res = r.res, !.read = r.c.pos]
          /\ vself' = IF r.res = "Some" THEN Append(vself, r.val) ELSE vself
          /\ vpc' = IF r.res = "Some" THEN "visiting"
                    ELSE IF r.res = "None" THEN "end" ELSE "error"
    /\ UNCHANGED <<impl, vty, posVars, nbtVars>>

SeqNext == SeqDeserialize \/ SeqNextElement

\* the visitor does not stop calling as long as it may
SpecSeqAccess == SeqInit /\ [][SeqNext]_vars /\ WF_vars(SeqNext)

-----------------------------------------------------------------------------
(* Properties of the serde coder.                                          *)

\* C30: on every finite stream the calls of next_element come to the one
\* that reports the end of the sequence.  In the code next_element_seed is
\* seed.deserialize(..).map(Some): it never returns None, and the calls end
\* with the I/O error of the exhausted stream.
C30_SeqEnds == <>(vpc = "end")


====
